---- MODULE Spec2Model ----
(***************************************************************************)
(* Model of ShenandoahGenerationalHeap (shenandoahGenerationalHeap.cpp):   *)
(* the generational evacuation engine (evacuate_object,                    *)
(* try_evacuate_object), the PLAB manager (allocate_from_plab,             *)
(* allocate_from_plab_slow, allocate_new_plab, retire_plab) and the        *)
(* generation balancer (compute_old_generation_balance), the completion    *)
(* of a cycle (complete_degenerated_cycle, complete_concurrent_cycle,      *)
(* coalesce_and_fill_old_regions) and the update of the heap references.   *)
(*                                                                         *)
(* Sizes are in heap words unless a name says bytes.  The heap geometry is *)
(* scaled down (a card is CardSizeInWords words, a region RegionSizeBytes  *)
(* bytes) so that every rounding case fits in a small state space.         *)
(***************************************************************************)
EXTENDS Integers, Sequences, FiniteSets, TLC

(***************************************************************************)
(* Bounds of the model.                                                    *)
(***************************************************************************)
NumThreads == 2
NumObjects == 3
MaxCalls == 2
RacerCalls == 1

(***************************************************************************)
(* Program constants (scaled).                                             *)
(***************************************************************************)
HeapWordSize == 8
CardSizeInWords == 2
PLABMinSize == 3
PLABMaxSize == 6
MaxTLABSizeWords == 8
ShenandoahMaxEvacLABRatio == 0
TenuringThreshold == 2
MaxAge == 3
SizeTBits == 16
RegionSizeBytes == 4
ShenandoahEvacReserve == 5
ShenandoahOldEvacWastePercent == 140
ShenandoahPromoEvacWastePercent == 120

(***************************************************************************)
(* The inputs of the generation balancer.                                  *)
(***************************************************************************)
MaxOldAvailable == 9
MaxUnaffiliated == 2
MaxCsetRegions == 2

(***************************************************************************)
(* The inputs of the buffer manager driven on its own.                     *)
(***************************************************************************)
MaxLabCalls == 3
MaxObjSize == 6
MaxEvacLABRatio == 2
NumRegions == 3
NumWorkers == 2
ChunksPerRegion == 2
ChunkWords == 2
YoungCapacities == {0, 100, 200}
LiveMemories == {0, 3, 10}
PromoLoads == {0, 5, 20}
OldEvacRatios == {0, 75, 100}
XferLimits == {0, 3, 4, 9}

Threads == 1..NumThreads
Objects == 1..NumObjects

\* Thread 1 makes up to MaxCalls calls, every other thread up to RacerCalls.
Budget(t) == IF t = 1 THEN MaxCalls ELSE RacerCalls

YOUNG_GENERATION == "YOUNG"
OLD_GENERATION == "OLD"

MIN2(a, b) == IF a < b THEN a ELSE b
MAX2(a, b) == IF a > b THEN a ELSE b
align_up(x, a) == ((x + a - 1) \div a) * a
align_down(x, a) == (x \div a) * a

\* size_t arithmetic: unsigned, SizeTBits wide.
SizeTMod == 2 ^ SizeTBits
SubSizeT(a, b) == (a - b) % SizeTMod
AddSizeT(a, b) == (a + b) % SizeTMod

\* The configuration of the heap.
VARIABLE
  evac_lab_ratio  \* ShenandoahMaxEvacLABRatio as configured

\* calculate_min_plab / calculate_max_plab: _min_plab_size, _max_plab_size.
calculate_min_plab == align_up(PLABMinSize, CardSizeInWords)
calculate_max_plab(ratio) ==
  IF ratio > 0
  THEN align_down(MIN2(MaxTLABSizeWords, PLABMinSize * ratio), CardSizeInWords)
  ELSE align_down(MaxTLABSizeWords, CardSizeInWords)
plab_min_size == calculate_min_plab
plab_max_size == calculate_max_plab(evac_lab_ratio)

(***************************************************************************)
(* The objects of the collection set.  Each object lives in a region of    *)
(* its own; the region's affiliation and age and the object's size and age *)
(* are fixed for the cycle.                                                *)
(***************************************************************************)
ObjProfiles ==
  << [aff |-> YOUNG_GENERATION, rage |-> 1, age |-> 1, size |-> 2],
     [aff |-> OLD_GENERATION,   rage |-> 0, age |-> 0, size |-> 4],
     [aff |-> YOUNG_GENERATION, rage |-> 0, age |-> 1, size |-> 5],
     [aff |-> YOUNG_GENERATION, rage |-> 2, age |-> 1, size |-> 5] >>
Obj(o) == ObjProfiles[((o - 1) % Len(ObjProfiles)) + 1]

VARIABLES
  active_young,   \* active_generation()->is_young()
  aging_cycle,    \* is_aging_cycle()
  quota,          \* calls of evacuate_object each thread may make
  fwd,            \* forwarding slot of each object: NoFwd, or the copy installed
  tld,            \* ShenandoahThreadLocalData of each thread
  pc,             \* position of each thread inside evacuate_object
  frame,          \* locals of the call in progress, its private copy included
  ncalls,         \* calls of evacuate_object started, per thread
  last,           \* the call that returned in the step just taken
  returned,       \* references returned for each object so far
  wins,           \* how often the "our copy is now the public one" branch ran, per object
  promo_tried,    \* young-region objects for which a copy into old was attempted
  old_failed_evac,\* old_generation()->handle_failed_evacuation() was called
  retire_log,     \* the retire_plab calls of the step just taken
  evac_log,       \* the try_evacuate_object calls of the step just taken, up to the copy
  accounted       \* end_evacuation and handle_evacuation calls made, per object

evacVars == << active_young, aging_cycle, quota, fwd, tld, pc, frame, ncalls, last,
               returned, wins, promo_tried, old_failed_evac, retire_log, evac_log,
               accounted >>

\* The generation balancer's state.
VARIABLES
  gen,            \* what compute_old_generation_balance reads of the generations and flags
  region_balance, \* old_generation()->get_region_balance()
  bal,            \* the last compute_old_generation_balance: its arguments and its values
  xfer,           \* the TransferResult of the last balance_generations
  failed_xfers    \* calls of old_generation()->handle_failed_transfer()

balVars == << gen, region_balance, bal, xfer, failed_xfers >>

\* One thread's buffers, driven call by call.
VARIABLES
  labd,           \* the thread's ShenandoahThreadLocalData
  labcall,        \* the buffer call just made: its arguments and what it did
  labn            \* buffer calls made so far

labVars == << labd, labcall, labn, evac_lab_ratio >>

\* The completion of a cycle.
VARIABLES
  cyc,            \* the completing thread: the cycle's kind, its position, the heap lock,
                  \* the old generation's flags, balance and reserves, the calls made
  cregion,        \* the heap's regions: affiliation and state
  citer,          \* ShenandoahRegionIterator _regions of the coalesce task: next index
  cworker,        \* the coalesce task's workers: position and region claimed
  cfilled         \* oop_coalesce_and_fill calls, per region

endVars == << cyc, cregion, citer, cworker, cfilled >>

\* The update of the heap references.
VARIABLES
  upd,            \* the phase: global or not, concurrent or not, cancelled_gc(),
                  \* run_task returned, the free set replenished
  uregion,        \* the heap's regions: affiliation, state and update watermark
  uiter,          \* ShenandoahRegionIterator update_refs_iterator: next index
  uchunk,         \* ShenandoahRegionChunkIterator work_list: next chunk
  uworker,        \* the task's workers: position in do_work, region and chunk held
  ulog            \* the claims and the scans made, per region and per chunk

updVars == << upd, uregion, uiter, uchunk, uworker, ulog >>

\* A copy is named by the thread that made it and the serial of the call.
NoFwd == [thr |-> 0, ser |-> 0, gen |-> "none", age |-> 0]
NoFrame == [obj |-> 0, target |-> "none", lab |-> FALSE]
NoCall == [thr |-> 0, obj |-> 0, ref |-> << "none", 0, 0 >>, how |-> "none",
           left |-> "none", target |-> "none"]

NoEvacLog == [thr |-> 0, obj |-> 0, tries |-> << >>]
NoAccount == [end_evacuation |-> 0, handle_evacuation |-> 0]

\* A reference: the original object, or the copy a thread made of it.
OrigRef(o) == << "orig", o, 0 >>
NullRef == << "null", 0, 0 >>
CopyRef(thr, ser) == << "copy", thr, ser >>

\* ShenandoahThreadLocalData after initialization: no buffers yet.  A thread
\* that is neither a Java thread nor a worker has no GCLAB and no PLAB.
InitTLD(has_labs) ==
  [oom |-> FALSE,
   gclab |-> has_labs, gclab_rem |-> 0, gclab_size |-> 0,
   plab |-> has_labs, plab_rem |-> 0, plab_size |-> 0,
   plab_actual_size |-> 0, plab_promoted |-> 0,
   allow_plab_promotions |-> TRUE, plab_retries_enabled |-> TRUE]

(***************************************************************************)
(* PLAB (gc/shared/plab.hpp), reduced to its words_remaining().            *)
(***************************************************************************)
\* PLAB::allocate(size): bump the top when the words fit.
PLAB_fits(rem, size) == rem >= size

\* What a buffer operation hands back: the thread's data afterwards, whether
\* memory was obtained, the PLAB retirements and the PLAB requests it made.
LabResult(d, obj, retired, reqs) ==
  [d |-> d, obj |-> obj, retired |-> retired, reqs |-> reqs]

\* The outcomes the shared allocator can give a request for a new buffer:
\* none, the minimum size, or the whole size asked for; a new PLAB may or may
\* not be allowed to hold promotions.
Grants == {"fail", "min", "full"}
PlabOracle == [grant : Grants, elig : BOOLEAN]

\* allocate_memory(req) for a PLAB request: the thread's promoted counter is
\* reset, and the PLAB is configured for promotions (its size recorded as
\* plab_actual_size, in bytes) or for evacuations only.
allocate_memory_plab(d, min_size, word_size, g) ==
  IF g.grant = "fail"
  THEN [d |-> d, buf |-> FALSE, actual_size |-> 0]
  ELSE LET actual == IF g.grant = "min" THEN min_size ELSE word_size
       IN [d |-> [d EXCEPT !.plab_promoted = 0,
                           !.allow_plab_promotions = g.elig,
                           !.plab_actual_size = IF g.elig THEN actual * HeapWordSize ELSE 0],
           buf |-> TRUE, actual_size |-> actual]

\* ShenandoahGenerationalHeap::allocate_new_plab: the request goes to
\* allocate_memory; the actual size is 0 when no buffer came back.
allocate_new_plab(d, min_size, word_size, g) ==
  allocate_memory_plab(d, min_size, word_size, g)

\* The mutant of retire_plab: the promoted counter is left as it is.
retire_plab_keep_promoted(d) ==
  LET not_promoted == SubSizeT(d.plab_actual_size, d.plab_promoted)
  IN [d |-> [d EXCEPT !.plab_actual_size = 0, !.plab_rem = 0],
      rec |-> [actual_size |-> d.plab_actual_size, promoted |-> d.plab_promoted,
               unexpended |-> IF not_promoted > 0 THEN not_promoted ELSE 0]]

\* The mutant of retire_plab: the promoted counter is reset before it is read.
retire_plab_reset_first(d) ==
  LET not_promoted == SubSizeT(d.plab_actual_size, 0)
  IN [d |-> [d EXCEPT !.plab_promoted = 0, !.plab_actual_size = 0, !.plab_rem = 0],
      rec |-> [actual_size |-> d.plab_actual_size, promoted |-> d.plab_promoted,
               unexpended |-> IF not_promoted > 0 THEN not_promoted ELSE 0]]

\* ShenandoahGenerationalHeap::retire_plab: what was not promoted goes back to
\* the old generation's promotion budget (unexpend_promoted); plab->retire()
\* leaves no words in the buffer.
retire_plab(d) ==
  LET not_promoted == SubSizeT(d.plab_actual_size, d.plab_promoted)
  IN [d |-> [d EXCEPT !.plab_promoted = 0, !.plab_actual_size = 0, !.plab_rem = 0],
      rec |-> [actual_size |-> d.plab_actual_size, promoted |-> d.plab_promoted,
               unexpended |-> IF not_promoted > 0 THEN not_promoted ELSE 0]]

\* The mutant of allocate_in_new_plab: a failed request leaves the promotions
\* as they are.
allocate_in_new_plab_no_disable(np, rec, min_size, cur_size, future_size, size, is_promotion) ==
  LET req == [min_size |-> min_size, word_size |-> cur_size,
              future_size |-> future_size, size |-> size, granted |-> np.buf]
      d3 == [np.d EXCEPT !.plab_retries_enabled = TRUE, !.plab_rem = np.actual_size]
  IN IF ~np.buf
     THEN LabResult(np.d, FALSE, << rec >>, << req >>)
     ELSE IF is_promotion /\ ~d3.allow_plab_promotions
     THEN LabResult(d3, FALSE, << rec >>, << req >>)
     ELSE IF PLAB_fits(d3.plab_rem, size)
     THEN LabResult([d3 EXCEPT !.plab_rem = @ - size], TRUE, << rec >>, << req >>)
     ELSE LabResult(d3, FALSE, << rec >>, << req >>)

\* Lines 440-470 of allocate_from_plab_slow: what follows allocate_new_plab.
\* np is what allocate_new_plab gave, rec the retirement made before it.
allocate_in_new_plab(np, rec, min_size, cur_size, future_size, size, is_promotion) ==
  LET req == [min_size |-> min_size, word_size |-> cur_size,
              future_size |-> future_size, size |-> size, granted |-> np.buf]
      d3 == [np.d EXCEPT !.plab_retries_enabled = TRUE, !.plab_rem = np.actual_size]
  IN IF ~np.buf
     THEN LabResult(IF min_size = plab_min_size
                    THEN [np.d EXCEPT !.allow_plab_promotions = FALSE]
                    ELSE np.d,
                    FALSE, << rec >>, << req >>)
     ELSE IF is_promotion /\ ~d3.allow_plab_promotions
     THEN LabResult(d3, FALSE, << rec >>, << req >>)
     ELSE IF PLAB_fits(d3.plab_rem, size)
     THEN LabResult([d3 EXCEPT !.plab_rem = @ - size], TRUE, << rec >>, << req >>)
     ELSE LabResult(d3, FALSE, << rec >>, << req >>)

\* The mutant of refill_plab: the doubled size is asked for.
refill_plab_doubled(rt, min_size, cur_size, future_size, size, is_promotion, g) ==
  allocate_in_new_plab(allocate_new_plab(rt.d, min_size, future_size, g), rt.rec,
                       min_size, future_size, future_size, size, is_promotion)

\* Lines 434-439 of allocate_from_plab_slow: after retire_plab, the new PLAB
\* is asked for.  rt is what retire_plab gave.
refill_plab(rt, min_size, cur_size, future_size, size, is_promotion, g) ==
  allocate_in_new_plab(allocate_new_plab(rt.d, min_size, cur_size, g), rt.rec,
                       min_size, cur_size, future_size, size, is_promotion)

\* ShenandoahGenerationalHeap::allocate_from_plab_slow
allocate_from_plab_slow(d, size, is_promotion, g) ==
  LET min_size == IF size > plab_min_size THEN align_up(size, CardSizeInWords) ELSE plab_min_size
      cur_size == IF d.plab_size = 0 THEN plab_min_size ELSE d.plab_size
      future_size == MIN2(cur_size * 2, plab_max_size)
      d1 == [d EXCEPT !.plab_size = future_size]
  IN IF cur_size < size
     THEN LabResult(d1, FALSE, << >>, << >>)
     ELSE IF d1.plab_rem < plab_min_size
     THEN refill_plab(retire_plab(d1), min_size, cur_size, future_size, size,
                      is_promotion, g)
     ELSE LabResult(d1, FALSE, << >>, << >>)

\* Lines 371-382 of allocate_from_plab: the PLAB, then its slow path.
plab_try(d, size, is_promotion, g) ==
  IF PLAB_fits(d.plab_rem, size)
  THEN LabResult([d EXCEPT !.plab_rem = @ - size], TRUE, << >>, << >>)
  ELSE IF d.plab_rem < plab_min_size
  THEN allocate_from_plab_slow(d, size, is_promotion, g)
  ELSE LabResult(d, FALSE, << >>, << >>)

\* Lines 383-389 of allocate_from_plab: a promotion is counted in plab_promoted.
expend_promoted(res, size, is_promotion) ==
  IF res.obj /\ is_promotion
  THEN [res EXCEPT !.d.plab_promoted = AddSizeT(@, size * HeapWordSize)]
  ELSE res

\* The mutant of allocate_from_plab: a thread whose promotions are disabled
\* is not turned away.
allocate_from_plab_no_fail_fast(d, size, is_promotion, g) ==
  IF ~d.plab
  THEN LabResult(d, FALSE, << >>, << >>)
  ELSE expend_promoted(plab_try(d, size, is_promotion, g), size, is_promotion)

\* ShenandoahGenerationalHeap::allocate_from_plab
allocate_from_plab(d, size, is_promotion, g) ==
  IF ~d.plab
  THEN LabResult(d, FALSE, << >>, << >>)
  ELSE IF is_promotion /\ ~d.allow_plab_promotions
  THEN LabResult(d, FALSE, << >>, << >>)
  ELSE expend_promoted(plab_try(d, size, is_promotion, g), size, is_promotion)

(***************************************************************************)
(* GCLAB (ShenandoahHeap::allocate_from_gclab and its slow path).          *)
(***************************************************************************)
allocate_from_gclab_slow(d, size, gg) ==
  LET min_size == MAX2(size, PLABMinSize)
      new_size == MAX2(MIN2(d.gclab_size * 2, PLABMaxSize), PLABMinSize)
      d1 == [d EXCEPT !.gclab_size = new_size]
  IN IF new_size < size
     THEN LabResult(d1, FALSE, << >>, << >>)
     ELSE IF gg = "fail"
     THEN LabResult([d1 EXCEPT !.gclab_rem = 0], FALSE, << >>, << >>)
     ELSE LET actual == IF gg = "min" THEN min_size ELSE new_size
          IN LabResult([d1 EXCEPT !.gclab_rem = actual - size], TRUE, << >>, << >>)

allocate_from_gclab(d, size, gg) ==
  IF ~d.gclab
  THEN LabResult(d, FALSE, << >>, << >>)
  ELSE IF PLAB_fits(d.gclab_rem, size)
  THEN LabResult([d EXCEPT !.gclab_rem = @ - size], TRUE, << >>, << >>)
  ELSE allocate_from_gclab_slow(d, size, gg)


(***************************************************************************)
(* try_evacuate_object, first half: the allocation of the copy.            *)
(***************************************************************************)
\* The mutant of shared_allowed: small promotions go to the shared allocator too.
shared_allowed_always(size, is_promotion, has_plab) == TRUE

\* Whether a failed buffer allocation falls back to a shared allocation.
shared_allowed(size, is_promotion, has_plab) ==
  ~is_promotion \/ ~has_plab \/ size > PLABMinSize

\* What the buffer part of try_evacuate_object did: r is what the last buffer
\* call gave, r1 what the first one gave, first_pref the buffer's configured
\* size after the first call, tries the number of buffer calls and reset_to
\* the configured size set for the retry (0: no retry).
Attempted(r, r1, first_pref, tries, reset_to) ==
  [d |-> r.d, obj |-> r.obj, retired |-> r.retired, reqs |-> r.reqs,
   tries |-> tries, reset_to |-> reset_to,
   first |-> [obj |-> r1.obj, pref |-> first_pref, plab_rem |-> r1.d.plab_rem,
              plab_retries_enabled |-> r1.d.plab_retries_enabled]]

\* Lines 209-215: r1 is what the GCLAB gave; one retry at the minimum size.
gclab_retry(r1, size, gg) ==
  IF ~r1.obj /\ size < r1.d.gclab_size
  THEN Attempted(allocate_from_gclab([r1.d EXCEPT !.gclab_size = PLABMinSize], size, gg),
                 r1, r1.d.gclab_size, 2, PLABMinSize)
  ELSE Attempted(r1, r1, r1.d.gclab_size, 1, 0)

\* Lines 234-241: r2 is what the retried PLAB gave; a second failure disables
\* the retries.
plab_retried(r1, r2) ==
  LabResult(IF r2.obj THEN r2.d ELSE [r2.d EXCEPT !.plab_retries_enabled = FALSE],
            r2.obj, r1.retired \o r2.retired, r1.reqs \o r2.reqs)

\* The mutant of plab_retry: the PLAB is tried again whatever it has left and
\* whether or not the retries are enabled.
plab_retry_eager(r1, size, is_promotion, g) ==
  IF ~r1.obj /\ size < r1.d.plab_size
  THEN Attempted(plab_retried(r1, allocate_from_plab([r1.d EXCEPT !.plab_size = plab_min_size],
                                                     size, is_promotion, g)),
                 r1, r1.d.plab_size, 2, plab_min_size)
  ELSE Attempted(r1, r1, r1.d.plab_size, 1, 0)

\* The mutant of plab_retry: the PLAB is tried again whether or not the
\* retries are enabled.
plab_retry_unflagged(r1, size, is_promotion, g) ==
  IF ~r1.obj /\ size < r1.d.plab_size /\ r1.d.plab_rem < plab_min_size
  THEN Attempted(plab_retried(r1, allocate_from_plab([r1.d EXCEPT !.plab_size = plab_min_size],
                                                     size, is_promotion, g)),
                 r1, r1.d.plab_size, 2, plab_min_size)
  ELSE Attempted(r1, r1, r1.d.plab_size, 1, 0)

\* Lines 222-233: r1 is what the PLAB gave; one retry at the minimum size
\* when the PLAB has little left.
plab_retry(r1, size, is_promotion, g) ==
  IF ~r1.obj /\ size < r1.d.plab_size /\ r1.d.plab_retries_enabled
     /\ r1.d.plab_rem < plab_min_size
  THEN Attempted(plab_retried(r1, allocate_from_plab([r1.d EXCEPT !.plab_size = plab_min_size],
                                                     size, is_promotion, g)),
                 r1, r1.d.plab_size, 2, plab_min_size)
  ELSE Attempted(r1, r1, r1.d.plab_size, 1, 0)

\* The buffer part: GCLAB for a young target, PLAB for an old one.
lab_allocate(d, size, target_gen, is_promotion, g1, g2) ==
  IF target_gen = YOUNG_GENERATION
  THEN gclab_retry(allocate_from_gclab(d, size, g1.grant), size, g2.grant)
  ELSE plab_retry(allocate_from_plab(d, size, is_promotion, g1), size, is_promotion, g2)

\* Lines 248-260: r is what the buffers gave; from is "lab", "shared" or
\* "none" (copy == nullptr).
\* shared holds the request made: for_shared_gc(size, target_gen, is_promotion).
shared_fallback(r, size, target_gen, is_promotion, has_plab, shared_ok) ==
  LET ask == ~r.obj /\ shared_allowed(size, is_promotion, has_plab)
  IN [d |-> r.d, retired |-> r.retired, reqs |-> r.reqs, shared_req |-> ask,
      shared |-> IF ask
                 THEN << [size |-> size, affiliation |-> target_gen,
                          is_promotion |-> is_promotion] >>
                 ELSE << >>,
      has_plab |-> has_plab, tries |-> r.tries, reset_to |-> r.reset_to,
      first |-> r.first,
      from |-> IF r.obj THEN "lab"
               ELSE IF ask /\ shared_ok THEN "shared"
               ELSE "none"]

\* Lines 191-260: the allocation of the copy.
evac_allocate(d, size, target_gen, is_promotion, g1, g2, shared_ok) ==
  shared_fallback(lab_allocate(d, size, target_gen, is_promotion, g1, g2),
                  size, target_gen, is_promotion, target_gen = OLD_GENERATION /\ d.plab,
                  shared_ok)

\* ShenandoahHeap::increase_object_age
increase_object_age(age, additional_age) == MIN2(MaxAge, age + additional_age)

\* The mutant of copy_age: the copy is aged in every cycle.
copy_age_any_cycle(o, target_gen) ==
  IF target_gen = YOUNG_GENERATION
  THEN increase_object_age(Obj(o).age, Obj(o).rage + 1)
  ELSE Obj(o).age

\* The age in the copy's mark word.
copy_age(o, target_gen) ==
  IF target_gen = YOUNG_GENERATION /\ aging_cycle
  THEN increase_object_age(Obj(o).age, Obj(o).rage + 1)
  ELSE Obj(o).age

(***************************************************************************)
(* try_evacuate_object, second half: installing the forwarding pointer.    *)
(***************************************************************************)
\* A plain store in the place of the compare-and-swap.
try_update_forwardee_store(slot, update) == [slot |-> update, result |-> update]

\* ShenandoahForwarding::try_update_forwardee: one compare-and-swap on the
\* forwarding slot; the result is the copy the slot holds afterwards.
try_update_forwardee(slot, update) ==
  IF slot = NoFwd
  THEN [slot |-> update, result |-> update]
  ELSE [slot |-> slot, result |-> slot]

\* The mutant of dispose_copy: the promoted counter is not rolled back and a
\* shared copy is left as it is.
dispose_copy_forgetful(d, size, target_gen, is_promotion, from_lab) ==
  IF from_lab
  THEN IF target_gen = YOUNG_GENERATION
       THEN [d |-> [d EXCEPT !.gclab_rem = @ + size], left |-> "undone"]
       ELSE [d |-> [d EXCEPT !.plab_rem = @ + size], left |-> "undone"]
  ELSE [d |-> d, left |-> "live"]

\* What the loser does with its copy: undo_allocation on the buffer it came
\* from, or fill_with_object over a shared allocation.
dispose_copy(d, size, target_gen, is_promotion, from_lab) ==
  IF from_lab
  THEN IF target_gen = YOUNG_GENERATION
       THEN [d |-> [d EXCEPT !.gclab_rem = @ + size], left |-> "undone"]
       ELSE [d |-> [d EXCEPT !.plab_rem = @ + size,
                             !.plab_promoted = IF is_promotion
                                               THEN SubSizeT(@, size * HeapWordSize)
                                               ELSE @],
             left |-> "undone"]
  ELSE [d |-> d, left |-> "filled"]

\* The mutant of evac_install: the loser hands back its own copy.
evac_install_own(d, slot, mine, size, target_gen, is_promotion, from_lab) ==
  LET cas == try_update_forwardee(slot, mine)
  IN IF cas.result = mine
     THEN [d |-> d, slot |-> cas.slot, result |-> mine, won |-> TRUE, left |-> "public"]
     ELSE LET u == dispose_copy(d, size, target_gen, is_promotion, from_lab)
          IN [d |-> u.d, slot |-> cas.slot, result |-> mine, won |-> FALSE,
              left |-> u.left]

\* The mutant of evac_install: the forwarding pointer is written with a store.
evac_install_store(d, slot, mine, size, target_gen, is_promotion, from_lab) ==
  LET cas == try_update_forwardee_store(slot, mine)
  IN IF cas.result = mine
     THEN [d |-> d, slot |-> cas.slot, result |-> mine, won |-> TRUE, left |-> "public"]
     ELSE LET u == dispose_copy(d, size, target_gen, is_promotion, from_lab)
          IN [d |-> u.d, slot |-> cas.slot, result |-> cas.result, won |-> FALSE,
              left |-> u.left]

\* The mutant of evac_install: any non-null result counts as a win.
evac_install_any(d, slot, mine, size, target_gen, is_promotion, from_lab) ==
  LET cas == try_update_forwardee(slot, mine)
  IN [d |-> d, slot |-> cas.slot, result |-> cas.result, won |-> TRUE, left |-> "public"]

\* Lines 303-359: the compare-and-swap and what the winner and the loser do.
evac_install(d, slot, mine, size, target_gen, is_promotion, from_lab) ==
  LET cas == try_update_forwardee(slot, mine)
  IN IF cas.result = mine
     THEN [d |-> d, slot |-> cas.slot, result |-> mine, won |-> TRUE, left |-> "public"]
     ELSE LET u == dispose_copy(d, size, target_gen, is_promotion, from_lab)
          IN [d |-> u.d, slot |-> cas.slot, result |-> cas.result, won |-> FALSE,
              left |-> u.left]


(***************************************************************************)
(* evacuate_object, as the steps of a thread.                              *)
(***************************************************************************)
\* ShenandoahBarrierSet::resolve_forwarded
resolve_forwarded(o) ==
  IF fwd[o] = NoFwd THEN OrigRef(o) ELSE CopyRef(fwd[o].thr, fwd[o].ser)

\* The mutant of is_oom_during_evac: the latch is never seen.
is_oom_during_evac_never(d) == FALSE

\* ShenandoahThreadLocalData::is_oom_during_evac, tested on entry.
is_oom_during_evac(d) == d.oom

\* The mutant of promotion_wanted: the age test is off by one.
promotion_wanted_early(o, displaced) ==
  /\ active_young
  /\ Obj(o).aff = YOUNG_GENERATION
  /\ ~displaced
  /\ Obj(o).rage + Obj(o).age + 1 >= TenuringThreshold

\* Lines 168-178: whether the promotion to old is attempted first.
promotion_wanted(o, displaced) ==
  /\ active_young
  /\ Obj(o).aff = YOUNG_GENERATION
  /\ ~displaced
  /\ Obj(o).rage + Obj(o).age >= TenuringThreshold

\* A thread inside the evacuation scope that has not run out of memory.
Evacuating(u) == pc[u] = "install"
OomBit == \E u \in Threads : tld[u].oom \/ pc[u] = "oomwait"

\* The call of thread t on object o returns ref.
Return(t, o, ref, how, left) ==
  /\ pc' = [pc EXCEPT ![t] = "idle"]
  /\ frame' = [frame EXCEPT ![t] = NoFrame]
  /\ last' = [thr |-> t, obj |-> o, ref |-> ref, how |-> how, left |-> left,
              target |-> frame[t].target]
  /\ returned' = [returned EXCEPT ![o] = @ \cup {ref}]

\* The allocator outcomes that matter to a try_evacuate_object: a GCLAB has
\* no promotion eligibility.
Oracles(target_gen) ==
  IF target_gen = OLD_GENERATION THEN PlabOracle ELSE [grant : Grants, elig : {FALSE}]

\* Every way the allocation of try_evacuate_object can end, over the
\* allocator's outcomes.
EvacOutcomes(d, size, target_gen, is_promotion) ==
  { evac_allocate(d, size, target_gen, is_promotion, g1, g2, shared_ok) :
      g1 \in Oracles(target_gen), g2 \in Oracles(target_gen), shared_ok \in BOOLEAN }

\* The mutant of handle_alloc_failure: a failed promotion is handled as a
\* failed evacuation into old.
handle_alloc_failure_promo_oom(target_gen, from_young) ==
  IF target_gen = OLD_GENERATION
  THEN [signals |-> << "handle_failed_evacuation", "handle_alloc_failure_evac" >>,
        oom |-> TRUE]
  ELSE [signals |-> << "handle_alloc_failure_evac" >>, oom |-> TRUE]

\* The mutant of handle_alloc_failure: the old generation is not told of a
\* failed evacuation.
handle_alloc_failure_quiet(target_gen, from_young) ==
  IF target_gen = OLD_GENERATION /\ from_young
  THEN [signals |-> << "handle_failed_promotion" >>, oom |-> FALSE]
  ELSE [signals |-> << "handle_alloc_failure_evac" >>, oom |-> TRUE]

\* Lines 270-288 of try_evacuate_object, copy == nullptr: the calls made, and
\* whether handle_out_of_memory_during_evacuation is entered (otherwise
\* nullptr is returned).
handle_alloc_failure(target_gen, from_young) ==
  IF target_gen = OLD_GENERATION
  THEN IF from_young
       THEN [signals |-> << "handle_failed_promotion" >>, oom |-> FALSE]
       ELSE [signals |-> << "handle_failed_evacuation", "handle_alloc_failure_evac" >>,
             oom |-> TRUE]
  ELSE [signals |-> << "handle_alloc_failure_evac" >>, oom |-> TRUE]

\* One try_evacuate_object up to the copy: whether memory was found, and what
\* handle_alloc_failure h did if not.
TryRecord(target_gen, from_young, got, h) ==
  [target |-> target_gen, from_young |-> from_young, copy |-> got,
   signals |-> IF got THEN << >> ELSE h.signals,
   oom |-> (~got /\ h.oom)]

Signalled(signals, name) == \E i \in 1..Len(signals) : signals[i] = name

\* The mutant of own_target: the last try_evacuate_object aims at old.
own_target_old(o) == OLD_GENERATION

\* Lines 167 and 186: the target of the last try_evacuate_object is the
\* affiliation of the object's region.
own_target(o) == Obj(o).aff

\* Line 195: is_promotion.
is_promotion_to(target_gen, o) ==
  target_gen = OLD_GENERATION /\ Obj(o).aff = YOUNG_GENERATION

\* try_evacuate_object(p, thread, r, target_gen), with target_gen the region's
\* own generation, from thread data d up to the copy of the object's words:
\* the thread is left before the compare-and-swap, or, with no memory, in the
\* out-of-memory protocol.  retired are the PLAB retirements of a promotion
\* attempt made before.
TryOwnGeneration(t, o, d, retired, tried) ==
  \E a \in EvacOutcomes(d, Obj(o).size, own_target(o),
                        is_promotion_to(own_target(o), o)) :
    LET target_gen == own_target(o)
        h == handle_alloc_failure(target_gen, Obj(o).aff = YOUNG_GENERATION)
        try == TryRecord(target_gen, Obj(o).aff = YOUNG_GENERATION, a.from # "none", h)
    IN /\ tld' = [tld EXCEPT ![t] = a.d]
       /\ retire_log' = retired \o a.retired
       /\ evac_log' = [thr |-> t, obj |-> o, tries |-> tried \o << try >>]
       /\ IF a.from = "none" /\ ~h.oom
          THEN /\ pc' = [pc EXCEPT ![t] = "idle"]
               /\ frame' = [frame EXCEPT ![t] = NoFrame]
               /\ last' = [thr |-> t, obj |-> o, ref |-> NullRef,
                           how |-> "not_relocated", left |-> "none",
                           target |-> target_gen]
               /\ returned' = [returned EXCEPT ![o] = @ \cup {NullRef}]
               /\ UNCHANGED old_failed_evac
          ELSE /\ frame' = [frame EXCEPT ![t] = [obj |-> o, target |-> target_gen,
                                                 lab |-> (a.from = "lab")]]
               /\ last' = NoCall
               /\ UNCHANGED returned
               /\ IF a.from = "none"
                  THEN /\ pc' = [pc EXCEPT ![t] = "oomwait"]
                       /\ old_failed_evac' =
                            (old_failed_evac
                               \/ Signalled(try.signals, "handle_failed_evacuation"))
                  ELSE /\ pc' = [pc EXCEPT ![t] = "install"]
                       /\ UNCHANGED old_failed_evac

\* try_evacuate_object(p, thread, r, OLD_GENERATION) for an object of a young
\* region: a failed promotion returns nullptr (handle_failed_promotion), and
\* evacuate_object goes on to the young generation.
TryPromotion(t, o) ==
  \E a \in EvacOutcomes(tld[t], Obj(o).size, OLD_GENERATION, TRUE) :
    LET h == handle_alloc_failure(OLD_GENERATION, TRUE)
        try == TryRecord(OLD_GENERATION, TRUE, a.from # "none", h)
    IN IF a.from = "none" /\ ~h.oom
       THEN TryOwnGeneration(t, o, a.d, a.retired, << try >>)
       ELSE /\ tld' = [tld EXCEPT ![t] = a.d]
            /\ retire_log' = a.retired
            /\ evac_log' = [thr |-> t, obj |-> o, tries |-> << try >>]
            /\ frame' = [frame EXCEPT ![t] = [obj |-> o, target |-> OLD_GENERATION,
                                              lab |-> (a.from = "lab")]]
            /\ pc' = [pc EXCEPT ![t] = IF a.from = "none" THEN "oomwait" ELSE "install"]
            /\ old_failed_evac' =
                 (old_failed_evac \/ Signalled(try.signals, "handle_failed_evacuation"))
            /\ last' = NoCall
            /\ UNCHANGED returned

\* evacuate_object up to the compare-and-swap.  The reads of the latch and of
\* the mark word and the allocation of the copy touch only the thread's own
\* data and the forwarding slot read on entry; they are one step.
Evacuate(t, o, displaced) ==
  /\ pc[t] = "idle"
  /\ ncalls[t] < quota[t]
  /\ ncalls' = [ncalls EXCEPT ![t] = @ + 1]
  /\ IF is_oom_during_evac(tld[t])
     THEN /\ Return(t, o, resolve_forwarded(o), "latched", "none")
          /\ retire_log' = << >>
          /\ evac_log' = NoEvacLog
          /\ UNCHANGED << tld, promo_tried, old_failed_evac >>
     ELSE /\ \A u \in Threads \ {t} : ~tld[u].oom
          /\ IF active_young /\ Obj(o).aff = YOUNG_GENERATION /\ fwd[o] # NoFwd
             THEN /\ Return(t, o, resolve_forwarded(o), "forwarded", "none")
                  /\ retire_log' = << >>
                  /\ evac_log' = NoEvacLog
                  /\ UNCHANGED << tld, promo_tried, old_failed_evac >>
             ELSE IF promotion_wanted(o, displaced)
                  THEN /\ promo_tried' = promo_tried \cup {o}
                       /\ TryPromotion(t, o)
                  ELSE /\ UNCHANGED promo_tried
                       /\ TryOwnGeneration(t, o, tld[t], << >>, << >>)
  /\ UNCHANGED << active_young, aging_cycle, quota, fwd, wins, accounted >>
  /\ UNCHANGED << balVars, labVars, endVars, updVars >>

\* A thread that enters the evacuation scope after another thread ran out of
\* memory waits for the evacuating threads and is latched itself; its
\* evacuate_object then only resolves the forwarding pointer.
EnterAfterOOM(t, o) ==
  /\ pc[t] = "idle"
  /\ ncalls[t] < quota[t]
  /\ ~tld[t].oom
  /\ OomBit
  /\ \A u \in Threads \ {t} : ~Evacuating(u)
  /\ ncalls' = [ncalls EXCEPT ![t] = @ + 1]
  /\ retire_log' = << >>
  /\ evac_log' = NoEvacLog
  /\ tld' = [tld EXCEPT ![t].oom = TRUE]
  /\ Return(t, o, resolve_forwarded(o), "latched_on_entry", "none")
  /\ UNCHANGED << active_young, aging_cycle, quota, fwd, wins, promo_tried,
                  old_failed_evac, accounted >>
  /\ UNCHANGED << balVars, labVars, endVars, updVars >>

\* The mutant of winner_accounting: the accounting is done whatever the
\* compare-and-swap gave.
winner_accounting_any(won, target_gen) ==
  [end_evacuation |-> 1,
   handle_evacuation |-> IF target_gen = OLD_GENERATION THEN 1 ELSE 0]

\* Lines 304-309: evac_tracker()->end_evacuation and, for a copy into old,
\* old_generation()->handle_evacuation, in the branch result == copy_val.
winner_accounting(won, target_gen) ==
  IF won
  THEN [end_evacuation |-> 1,
        handle_evacuation |-> IF target_gen = OLD_GENERATION THEN 1 ELSE 0]
  ELSE NoAccount

add_account(acc, calls) ==
  [end_evacuation |-> acc.end_evacuation + calls.end_evacuation,
   handle_evacuation |-> acc.handle_evacuation + calls.handle_evacuation]

\* try_evacuate_object from the compare-and-swap to its return.
Install(t) ==
  /\ pc[t] = "install"
  /\ LET o == frame[t].obj
         target_gen == frame[t].target
         is_promotion == target_gen = OLD_GENERATION /\ Obj(o).aff = YOUNG_GENERATION
         mine == [thr |-> t, ser |-> ncalls[t], gen |-> target_gen,
                  age |-> copy_age(o, target_gen)]
         r == evac_install(tld[t], fwd[o], mine, Obj(o).size, target_gen, is_promotion,
                           frame[t].lab)
     IN /\ fwd' = [fwd EXCEPT ![o] = r.slot]
        /\ tld' = [tld EXCEPT ![t] = r.d]
        /\ wins' = [wins EXCEPT ![o] = IF r.won THEN @ + 1 ELSE @]
        /\ accounted' = [accounted EXCEPT ![o] =
                           add_account(@, winner_accounting(r.won, target_gen))]
        /\ Return(t, o, CopyRef(r.result.thr, r.result.ser),
                  IF r.won THEN "won" ELSE "lost", r.left)
  /\ retire_log' = << >>
  /\ evac_log' = NoEvacLog
  /\ UNCHANGED << active_young, aging_cycle, quota, ncalls, promo_tried,
                  old_failed_evac >>
  /\ UNCHANGED << balVars, labVars, endVars, updVars >>

\* handle_out_of_memory_during_evacuation: wait until no thread evacuates,
\* raise the thread's latch, and return the forwarding target.
OOMDone(t) ==
  /\ pc[t] = "oomwait"
  /\ \A u \in Threads \ {t} : ~Evacuating(u)
  /\ tld' = [tld EXCEPT ![t].oom = TRUE]
  /\ Return(t, frame[t].obj, resolve_forwarded(frame[t].obj), "oom", "none")
  /\ retire_log' = << >>
  /\ evac_log' = NoEvacLog
  /\ UNCHANGED << active_young, aging_cycle, quota, fwd, ncalls, wins, promo_tried,
                  old_failed_evac, accounted >>
  /\ UNCHANGED << balVars, labVars, endVars, updVars >>

EvacInit ==
  /\ active_young \in BOOLEAN
  /\ aging_cycle \in BOOLEAN
  /\ quota = [t \in Threads |-> Budget(t)]
  /\ fwd = [o \in Objects |-> NoFwd]
  /\ \E racer_labs \in BOOLEAN :
       tld = [t \in Threads |-> InitTLD(t = 1 \/ racer_labs)]
  /\ pc = [t \in Threads |-> "idle"]
  /\ frame = [t \in Threads |-> NoFrame]
  /\ ncalls = [t \in Threads |-> 0]
  /\ last = NoCall
  /\ returned = [o \in Objects |-> {}]
  /\ wins = [o \in Objects |-> 0]
  /\ promo_tried = {}
  /\ old_failed_evac = FALSE
  /\ retire_log = << >>
  /\ evac_log = NoEvacLog
  /\ accounted = [o \in Objects |-> NoAccount]

Next ==
  \/ \E t \in Threads, o \in Objects, displaced \in BOOLEAN : Evacuate(t, o, displaced)
  \/ \E t \in Threads, o \in Objects : EnterAfterOOM(t, o)
  \/ \E t \in Threads : Install(t)
  \/ \E t \in Threads : OOMDone(t)

(***************************************************************************)
(* The generation balancer.  Sizes are in bytes; a region has              *)
(* RegionSizeBytes bytes.                                                  *)
(***************************************************************************)
NoBal == [called |-> FALSE, old_xfer_limit |-> 0, old_cset_regions |-> 0,
          max_old_reserve |-> 0, reserve_for_mixed |-> 0, reserve_for_promo |-> 0,
          old_reserve |-> 0, max_old_available |-> 0, region_balance |-> 0]
NoXfer == [called |-> FALSE, success |-> TRUE, region_count |-> 0,
           region_destination |-> "none", asked |-> << >>]

\* (size_t)(bytes * waste), the waste factor given in percent.
WasteBytes(bytes, waste_percent) == (bytes * waste_percent) \div 100

\* Lines 590-600: the upper bound on the old reserve.
max_old_reserve_of(g, old_xfer_limit) ==
  LET old_available == g.old_available
      young_reserve == (g.young_max_capacity * ShenandoahEvacReserve) \div 100
      bound_on_old_reserve == old_available + old_xfer_limit + young_reserve
  IN IF g.ShenandoahOldEvacRatioPercent = 100
     THEN bound_on_old_reserve
     ELSE MIN2((young_reserve * g.ShenandoahOldEvacRatioPercent)
                 \div (100 - g.ShenandoahOldEvacRatioPercent),
               bound_on_old_reserve)

\* Lines 604-619: the reserve for a mixed collection.
reserve_for_mixed_of(g, max_old_reserve) ==
  IF g.has_unprocessed_collection_candidates
  THEN LET max_evac_need == WasteBytes(g.unprocessed_collection_candidates_live_memory,
                                       ShenandoahOldEvacWastePercent)
           old_fragmented_available ==
             SubSizeT(g.old_available, g.free_unaffiliated_regions * RegionSizeBytes)
       IN MIN2(max_evac_need + old_fragmented_available, max_old_reserve)
  ELSE 0

\* The mutant of reserve_for_promo_of: the promotion reserve is not held to
\* what the mixed reserve leaves under the bound.
reserve_for_promo_of_unbounded(g, max_old_reserve, reserve_for_mixed) ==
  LET promo_load == g.promotion_potential
  IN IF promo_load > 0
     THEN WasteBytes(promo_load, ShenandoahPromoEvacWastePercent)
     ELSE 0

\* Lines 621-630: the reserve for promotions from young.
reserve_for_promo_of(g, max_old_reserve, reserve_for_mixed) ==
  LET promo_load == g.promotion_potential
  IN IF promo_load > 0
     THEN MIN2(WasteBytes(promo_load, ShenandoahPromoEvacWastePercent),
               SubSizeT(max_old_reserve, reserve_for_mixed))
     ELSE 0

\* The mutant of old_region_surplus: the surplus is not held to the
\* unaffiliated regions.
old_region_surplus_unbounded(g, old_cset_regions, max_old_available, old_reserve) ==
  (max_old_available - old_reserve) \div RegionSizeBytes

\* The mutant of old_region_surplus: the regions of the collection set are
\* not counted as unaffiliated.
old_region_surplus_no_cset(g, old_cset_regions, max_old_available, old_reserve) ==
  MIN2((max_old_available - old_reserve) \div RegionSizeBytes, g.free_unaffiliated_regions)

\* Lines 639-643: the regions old can give to young.
old_region_surplus(g, old_cset_regions, max_old_available, old_reserve) ==
  LET old_surplus == (max_old_available - old_reserve) \div RegionSizeBytes
      unaffiliated_old_regions == g.free_unaffiliated_regions + old_cset_regions
  IN MIN2(old_surplus, unaffiliated_old_regions)

\* The mutant of old_region_deficit: the deficit is not held to the transfer limit.
old_region_deficit_unbounded(old_xfer_limit, max_old_available, old_reserve) ==
  (old_reserve - max_old_available + RegionSizeBytes - 1) \div RegionSizeBytes

\* The mutant of old_region_deficit: the need is rounded down to whole regions.
old_region_deficit_rounded_down(old_xfer_limit, max_old_available, old_reserve) ==
  LET old_need == (old_reserve - max_old_available) \div RegionSizeBytes
      max_old_region_xfer == old_xfer_limit \div RegionSizeBytes
  IN MIN2(old_need, max_old_region_xfer)

\* Lines 645-656: the regions old wants from young.
old_region_deficit(old_xfer_limit, max_old_available, old_reserve) ==
  LET old_need == (old_reserve - max_old_available + RegionSizeBytes - 1) \div RegionSizeBytes
      max_old_region_xfer == old_xfer_limit \div RegionSizeBytes
  IN MIN2(old_need, max_old_region_xfer)

\* ShenandoahGenerationalHeap::compute_old_generation_balance: the values it
\* computes and the region balance it sets.
compute_old_generation_balance(g, old_xfer_limit, old_cset_regions) ==
  LET max_old_reserve == max_old_reserve_of(g, old_xfer_limit)
      reserve_for_mixed == reserve_for_mixed_of(g, max_old_reserve)
      reserve_for_promo == reserve_for_promo_of(g, max_old_reserve, reserve_for_mixed)
      old_reserve == reserve_for_mixed + reserve_for_promo
      max_old_available == g.old_available + old_cset_regions * RegionSizeBytes
  IN [called |-> TRUE, old_xfer_limit |-> old_xfer_limit,
      old_cset_regions |-> old_cset_regions,
      max_old_reserve |-> max_old_reserve, reserve_for_mixed |-> reserve_for_mixed,
      reserve_for_promo |-> reserve_for_promo, old_reserve |-> old_reserve,
      max_old_available |-> max_old_available,
      region_balance |->
        IF max_old_available >= old_reserve
        THEN old_region_surplus(g, old_cset_regions, max_old_available, old_reserve)
        ELSE 0 - old_region_deficit(old_xfer_limit, max_old_available, old_reserve)]

ComputeBalance(old_xfer_limit, old_cset_regions) ==
  /\ ~bal.called
  /\ LET r == compute_old_generation_balance(gen, old_xfer_limit, old_cset_regions)
     IN /\ region_balance' = r.region_balance
        /\ bal' = r
  /\ UNCHANGED << gen, xfer, failed_xfers >>
  /\ UNCHANGED << evacVars, labVars, endVars, updVars >>

\* The result of balance_generations: the balance it leaves, the transfers
\* it asked the generation sizer for, the TransferResult it returns and the
\* number of handle_failed_transfer calls it made.
Balanced(left, asked, success, region_count, region_destination, notified) ==
  [region_balance |-> left, asked |-> asked, success |-> success,
   region_count |-> region_count, region_destination |-> region_destination,
   handle_failed_transfer |-> notified]

\* The mutant of balance_generations: the balance is reset only when the
\* transfer succeeds.
balance_generations_reset_on_success(old_region_balance, success) ==
  IF old_region_balance > 0
  THEN Balanced(IF success THEN 0 ELSE old_region_balance,
                << << "young", old_region_balance >> >>, success,
                old_region_balance, "young", 0)
  ELSE IF old_region_balance < 0
  THEN Balanced(IF success THEN 0 ELSE old_region_balance,
                << << "old", 0 - old_region_balance >> >>, success,
                0 - old_region_balance, "old", IF success THEN 0 ELSE 1)
  ELSE Balanced(0, << >>, TRUE, 0, "none", 0)

\* The mutant of balance_generations: every failed transfer is reported to
\* the old generation.
balance_generations_notify_any(old_region_balance, success) ==
  IF old_region_balance > 0
  THEN Balanced(0, << << "young", old_region_balance >> >>, success,
                old_region_balance, "young", IF success THEN 0 ELSE 1)
  ELSE IF old_region_balance < 0
  THEN Balanced(0, << << "old", 0 - old_region_balance >> >>, success,
                0 - old_region_balance, "old", IF success THEN 0 ELSE 1)
  ELSE Balanced(0, << >>, TRUE, 0, "none", 0)

\* ShenandoahGenerationalHeap::balance_generations, lines 538-565, on the
\* balance read at line 542; success is what the generation sizer's
\* transfer returns.
balance_generations(old_region_balance, success) ==
  IF old_region_balance > 0
  THEN Balanced(0, << << "young", old_region_balance >> >>, success,
                old_region_balance, "young", 0)
  ELSE IF old_region_balance < 0
  THEN Balanced(0, << << "old", 0 - old_region_balance >> >>, success,
                0 - old_region_balance, "old", IF success THEN 0 ELSE 1)
  ELSE Balanced(0, << >>, TRUE, 0, "none", 0)

\* A call of balance_generations at the end of a cycle.
BalanceGenerations(success) ==
  /\ ~xfer.called
  /\ LET r == balance_generations(region_balance, success)
     IN /\ region_balance' = r.region_balance
        /\ xfer' = [called |-> TRUE, success |-> r.success,
                    region_count |-> r.region_count,
                    region_destination |-> r.region_destination,
                    asked |-> r.asked]
        /\ failed_xfers' = failed_xfers + r.handle_failed_transfer
  /\ UNCHANGED << gen, bal >>
  /\ UNCHANGED << evacVars, labVars, endVars, updVars >>

\* The generations as a cycle can leave them: the unaffiliated regions of
\* old are part of what old has available.
GenStates ==
  { g \in [old_available : 0..MaxOldAvailable,
           free_unaffiliated_regions : 0..MaxUnaffiliated,
           young_max_capacity : YoungCapacities,
           has_unprocessed_collection_candidates : BOOLEAN,
           unprocessed_collection_candidates_live_memory : LiveMemories,
           promotion_potential : PromoLoads,
           ShenandoahOldEvacRatioPercent : OldEvacRatios] :
      /\ g.old_available >= g.free_unaffiliated_regions * RegionSizeBytes
      /\ ~g.has_unprocessed_collection_candidates
           => g.unprocessed_collection_candidates_live_memory = 0 }

BalInit ==
  /\ gen \in GenStates
  /\ region_balance = 0
  /\ bal = NoBal
  /\ xfer = NoXfer
  /\ failed_xfers = 0

NextBalance ==
  \/ \E old_xfer_limit \in XferLimits, old_cset_regions \in 0..MaxCsetRegions :
       ComputeBalance(old_xfer_limit, old_cset_regions)
  \/ \E success \in BOOLEAN : BalanceGenerations(success)

(***************************************************************************)
(* The buffer manager of one thread, driven call by call: allocate_from_plab *)
(* on its own, the allocation part of try_evacuate_object, and the         *)
(* rollback of a copy that lost the race.                                  *)
(***************************************************************************)
NoFirst == [obj |-> FALSE, pref |-> 0, plab_rem |-> 0, plab_retries_enabled |-> FALSE]

NoLabCall ==
  [op |-> "none", size |-> 0, target |-> "none", is_promotion |-> FALSE,
   before |-> InitTLD(FALSE), after |-> InitTLD(FALSE), obj |-> FALSE,
   retired |-> << >>, reqs |-> << >>, shared |-> << >>, has_plab |-> FALSE,
   tries |-> 0, reset_to |-> 0, first |-> NoFirst, from |-> "none"]

\* The record of an allocate_from_plab(thread, size, is_promotion) that gave r.
PlabCallRecord(r, before, size, is_promotion) ==
  [NoLabCall EXCEPT !.op = "plab", !.size = size, !.target = OLD_GENERATION,
                    !.is_promotion = is_promotion, !.before = before, !.after = r.d,
                    !.obj = r.obj, !.retired = r.retired, !.reqs = r.reqs,
                    !.has_plab = before.plab, !.tries = 1,
                    !.from = IF r.obj THEN "lab" ELSE "none"]

\* The record of the allocation part of a try_evacuate_object that gave a.
EvacCallRecord(a, before, size, target_gen, is_promotion) ==
  [op |-> "evac", size |-> size, target |-> target_gen, is_promotion |-> is_promotion,
   before |-> before, after |-> a.d, obj |-> (a.from = "lab"),
   retired |-> a.retired, reqs |-> a.reqs, shared |-> a.shared, has_plab |-> a.has_plab,
   tries |-> a.tries, reset_to |-> a.reset_to, first |-> a.first, from |-> a.from]

\* allocate_from_plab(thread, size, is_promotion)
LabPlab(size, is_promotion, g) ==
  /\ labn < MaxLabCalls
  /\ labn' = labn + 1
  /\ labcall' = PlabCallRecord(allocate_from_plab(labd, size, is_promotion, g),
                               labd, size, is_promotion)
  /\ labd' = labcall'.after
  /\ UNCHANGED evac_lab_ratio
  /\ UNCHANGED << evacVars, balVars, endVars, updVars >>

\* Lines 191-268 of try_evacuate_object(p, thread, from_region, target_gen)
\* over the allocator's outcomes.
LabEvac(size, target_gen, is_promotion) ==
  /\ labn < MaxLabCalls
  /\ labn' = labn + 1
  /\ \E a \in EvacOutcomes(labd, size, target_gen, is_promotion) :
       labcall' = EvacCallRecord(a, labd, size, target_gen, is_promotion)
  /\ labd' = labcall'.after
  /\ UNCHANGED evac_lab_ratio
  /\ UNCHANGED << evacVars, balVars, endVars, updVars >>

\* Lines 327-347 of try_evacuate_object: the copy just allocated from a
\* buffer lost the race and is rolled back.
LabUndo ==
  /\ labcall.op = "evac"
  /\ labcall.from = "lab"
  /\ labd' = dispose_copy(labd, labcall.size, labcall.target, labcall.is_promotion, TRUE).d
  /\ labcall' = [NoLabCall EXCEPT !.op = "undo", !.size = labcall.size,
                                  !.target = labcall.target,
                                  !.is_promotion = labcall.is_promotion,
                                  !.before = labd, !.after = labd']
  /\ UNCHANGED << labn, evac_lab_ratio, evacVars, balVars, endVars, updVars >>

\* The three kinds of copy: within young, within old, from young to old.
EvacKinds ==
  { [target |-> YOUNG_GENERATION, is_promotion |-> FALSE],
    [target |-> OLD_GENERATION, is_promotion |-> FALSE],
    [target |-> OLD_GENERATION, is_promotion |-> TRUE] }

LabInit ==
  /\ labd \in {InitTLD(TRUE), InitTLD(FALSE)}
  /\ labcall = NoLabCall
  /\ labn = 0
  /\ evac_lab_ratio = ShenandoahMaxEvacLABRatio

\* The same over the values ShenandoahMaxEvacLABRatio can be given.
LabConfigInit ==
  /\ labd \in {InitTLD(TRUE), InitTLD(FALSE)}
  /\ labcall = NoLabCall
  /\ labn = 0
  /\ evac_lab_ratio \in 0..MaxEvacLABRatio

NextLab ==
  \/ \E size \in 1..MaxObjSize, is_promotion \in BOOLEAN, g \in PlabOracle :
       LabPlab(size, is_promotion, g)
  \/ \E size \in 1..MaxObjSize, k \in EvacKinds :
       LabEvac(size, k.target, k.is_promotion)
  \/ LabUndo

LabIdle ==
  /\ labd = InitTLD(FALSE)
  /\ labcall = NoLabCall
  /\ labn = 0
  /\ evac_lab_ratio = ShenandoahMaxEvacLABRatio

(***************************************************************************)
(* The completion of a cycle: complete_degenerated_cycle,                  *)
(* complete_concurrent_cycle and the coalesce-and-fill task.               *)
(***************************************************************************)
Regions == 1..NumRegions
Workers == 1..NumWorkers

\* ShenandoahHeapRegion: what its state says.
is_active(r) == r.state \notin {"empty", "trash"}
is_cset(r) == r.state = "cset"
is_humongous(r) == r.state = "humongous"
is_old(r) == r.aff = OLD_GENERATION
is_young(r) == r.aff = YOUNG_GENERATION

\* The regions as the end of a cycle finds them: the collection set has been
\* recycled, its regions are trash.
RegionsAtCompletion ==
  { [aff |-> OLD_GENERATION, state |-> "regular"],
    [aff |-> OLD_GENERATION, state |-> "humongous"],
    [aff |-> OLD_GENERATION, state |-> "trash"],
    [aff |-> YOUNG_GENERATION, state |-> "regular"] }

\* The mutant of coalesce_wanted: humongous regions are coalesced too.
coalesce_wanted_humongous(r) == is_old(r) /\ is_active(r)

\* Line 696 of ShenandoahGlobalCoalesceAndFill::work.
coalesce_wanted(r) == is_old(r) /\ is_active(r) /\ ~is_humongous(r)

\* The mutant of reset_generation_reserves: the promoted reserve is kept.
reset_generation_reserves_evacuation(reserves) ==
  [reserves EXCEPT !.young_evacuation = 0, !.old_evacuation = 0]

\* ShenandoahGenerationalHeap::reset_generation_reserves
reset_generation_reserves(reserves) ==
  [young_evacuation |-> 0, old_evacuation |-> 0, old_promoted |-> 0]

\* The mutant of complete_degenerated_next: the old regions are coalesced
\* whether or not the old generation is parseable.
complete_degenerated_next_fill_always(at, old_mark, parseable) ==
  IF at = "entry" THEN (IF old_mark THEN "satb" ELSE "balance")
  ELSE IF at = "satb" THEN "balance"
  ELSE IF at = "balance" THEN "reset"
  ELSE IF at = "reset" THEN "coalesce"
  ELSE "return"

\* complete_degenerated_cycle, lines 951-976: what follows the step at.
complete_degenerated_next(at, old_mark, parseable) ==
  IF at = "entry" THEN (IF old_mark THEN "satb" ELSE "balance")
  ELSE IF at = "satb" THEN "balance"
  ELSE IF at = "balance" THEN "reset"
  ELSE IF at = "reset" THEN (IF ~parseable THEN "coalesce" ELSE "return")
  ELSE "return"

\* The mutant of complete_concurrent_next: the old regions are coalesced
\* under the heap lock.
complete_concurrent_next_fill_locked(at, old_mark, parseable) ==
  IF at = "entry" THEN "lock"
  ELSE IF at = "lock" THEN (IF ~parseable THEN "coalesce" ELSE "balance")
  ELSE IF at = "coalesce" THEN "balance"
  ELSE IF at = "balance" THEN "reset"
  ELSE IF at = "reset" THEN "unlock"
  ELSE "return"

\* complete_concurrent_cycle, lines 978-1003: what follows the step at.
complete_concurrent_next(at, old_mark, parseable) ==
  IF at = "entry" THEN (IF ~parseable THEN "coalesce" ELSE "lock")
  ELSE IF at = "coalesce" THEN "lock"
  ELSE IF at = "lock" THEN "balance"
  ELSE IF at = "balance" THEN "reset"
  ELSE IF at = "reset" THEN "unlock"
  ELSE "return"

\* The step that follows at in the cycle c.
next_step(c, at) ==
  IF c.kind = "degenerated"
  THEN complete_degenerated_next(at, c.old_mark, c.parseable)
  ELSE complete_concurrent_next(at, c.old_mark, c.parseable)

\* The completing thread has done the step at: the call is logged with the
\* heap lock as held then, and the thread moves on.
Advance(c, at) ==
  [c EXCEPT !.at = next_step(c, at),
            !.calls = Append(@, [op |-> at, locked |-> c.lock_held,
                                 parseable |-> c.parseable])]

\* complete_degenerated_cycle or complete_concurrent_cycle is entered.
Enter ==
  /\ cyc.at = "entry"
  /\ cyc' = [cyc EXCEPT !.at = next_step(cyc, "entry")]
  /\ UNCHANGED << cregion, citer, cworker, cfilled >>
  /\ UNCHANGED << evacVars, balVars, labVars, updVars >>

\* old_generation()->transfer_pointers_from_satb()
TransferSatb ==
  /\ cyc.at = "satb"
  /\ cyc' = [Advance(cyc, "satb") EXCEPT !.satb_drained = @ + 1]
  /\ UNCHANGED << cregion, citer, cworker, cfilled >>
  /\ UNCHANGED << evacVars, balVars, labVars, updVars >>

\* ShenandoahHeapLocker locker(lock())
Lock ==
  /\ cyc.at = "lock"
  /\ ~cyc.lock_held
  /\ cyc' = Advance([cyc EXCEPT !.lock_held = TRUE], "lock")
  /\ UNCHANGED << cregion, citer, cworker, cfilled >>
  /\ UNCHANGED << evacVars, balVars, labVars, updVars >>

\* balance_generations()
Balance(success) ==
  /\ cyc.at = "balance"
  /\ LET r == balance_generations(cyc.region_balance, success)
     IN cyc' = [Advance(cyc, "balance") EXCEPT
                  !.region_balance = r.region_balance,
                  !.result = [success |-> r.success, region_count |-> r.region_count,
                              region_destination |-> r.region_destination]]
  /\ UNCHANGED << cregion, citer, cworker, cfilled >>
  /\ UNCHANGED << evacVars, balVars, labVars, updVars >>

\* reset_generation_reserves()
ResetReserves ==
  /\ cyc.at = "reset"
  /\ cyc' = [Advance(cyc, "reset") EXCEPT !.reserves = reset_generation_reserves(@)]
  /\ UNCHANGED << cregion, citer, cworker, cfilled >>
  /\ UNCHANGED << evacVars, balVars, labVars, updVars >>

\* The end of the locker's scope.
Unlock ==
  /\ cyc.at = "unlock"
  /\ cyc' = Advance([cyc EXCEPT !.lock_held = FALSE], "unlock")
  /\ UNCHANGED << cregion, citer, cworker, cfilled >>
  /\ UNCHANGED << evacVars, balVars, labVars, updVars >>

\* coalesce_and_fill_old_regions, lines 711-713: the task is made and
\* workers()->run_task starts its workers.
CoalesceStart ==
  /\ cyc.at = "coalesce"
  /\ cyc' = [cyc EXCEPT !.at = "coalescing",
                        !.calls = Append(@, [op |-> "coalesce", locked |-> cyc.lock_held,
                                             parseable |-> cyc.parseable])]
  /\ citer' = 1
  /\ cworker' = [w \in Workers |-> [pc |-> "next", region |-> 0]]
  /\ UNCHANGED << cregion, cfilled >>
  /\ UNCHANGED << evacVars, balVars, labVars, updVars >>

\* _regions.next(): one atomic claim of the next index.
CoalesceNext(w) ==
  /\ cyc.at = "coalescing"
  /\ cworker[w].pc = "next"
  /\ IF citer <= NumRegions
     THEN /\ cworker' = [cworker EXCEPT ![w] = [pc |-> "fill", region |-> citer]]
          /\ citer' = citer + 1
     ELSE /\ cworker' = [cworker EXCEPT ![w] = [pc |-> "done", region |-> 0]]
          /\ UNCHANGED citer
  /\ UNCHANGED << cyc, cregion, cfilled >>
  /\ UNCHANGED << evacVars, balVars, labVars, updVars >>

\* Lines 696-703: the region claimed is coalesced and filled if it is an
\* active old region that is not humongous.
CoalesceFill(w) ==
  /\ cyc.at = "coalescing"
  /\ cworker[w].pc = "fill"
  /\ cfilled' = [cfilled EXCEPT ![cworker[w].region] =
                   IF coalesce_wanted(cregion[cworker[w].region])
                   THEN Append(@, [by |-> w, cancelled |-> cyc.cancelled]) ELSE @]
  /\ cworker' = [cworker EXCEPT ![w].pc = "next"]
  /\ UNCHANGED << cyc, cregion, citer >>
  /\ UNCHANGED << evacVars, balVars, labVars, updVars >>

\* run_task returns when every worker has; old_generation()->set_parseable(true).
CoalesceFinish ==
  /\ cyc.at = "coalescing"
  /\ \A w \in Workers : cworker[w].pc = "done"
  /\ cyc' = [cyc EXCEPT !.at = next_step(cyc, "coalesce"), !.parseable = TRUE,
                        !.calls = Append(@, [op |-> "set_parseable",
                                             locked |-> cyc.lock_held,
                                             parseable |-> TRUE])]
  /\ UNCHANGED << cregion, citer, cworker, cfilled >>
  /\ UNCHANGED << evacVars, balVars, labVars, updVars >>

\* The collection is cancelled while the cycle completes.
CancelGC ==
  /\ ~cyc.cancelled
  /\ cyc.at \notin {"entry", "return", "idle"}
  /\ cyc' = [cyc EXCEPT !.cancelled = TRUE]
  /\ UNCHANGED << cregion, citer, cworker, cfilled >>
  /\ UNCHANGED << evacVars, balVars, labVars, updVars >>

NoCycle ==
  [kind |-> "none", at |-> "idle", lock_held |-> FALSE, old_mark |-> FALSE,
   parseable |-> TRUE, cancelled |-> FALSE, region_balance |-> 0,
   result |-> [success |-> TRUE, region_count |-> 0, region_destination |-> "none"],
   reserves |-> [young_evacuation |-> 0, old_evacuation |-> 0, old_promoted |-> 0],
   satb_drained |-> 0, calls |-> << >>]

\* A degenerated cycle completes at a safepoint; a concurrent one with the
\* heap lock free.
EndInit ==
  /\ \E kind \in {"degenerated", "concurrent"}, old_mark \in BOOLEAN,
        parseable \in BOOLEAN, b \in {0 - 1, 0, 1} :
       cyc = [NoCycle EXCEPT !.kind = kind, !.at = "entry", !.old_mark = old_mark,
                             !.parseable = parseable, !.region_balance = b,
                             !.reserves = [young_evacuation |-> 3, old_evacuation |-> 2,
                                           old_promoted |-> 1]]
  /\ cregion \in [Regions -> RegionsAtCompletion]
  /\ citer = 1
  /\ cworker = [w \in Workers |-> [pc |-> "done", region |-> 0]]
  /\ cfilled = [r \in Regions |-> << >>]

NextComplete ==
  \/ Enter
  \/ TransferSatb
  \/ Lock
  \/ \E success \in BOOLEAN : Balance(success)
  \/ ResetReserves
  \/ Unlock
  \/ CoalesceStart
  \/ \E w \in Workers : CoalesceNext(w)
  \/ \E w \in Workers : CoalesceFill(w)
  \/ CoalesceFinish
  \/ CancelGC

EndIdle ==
  /\ cyc = NoCycle
  /\ cregion = [r \in Regions |-> [aff |-> YOUNG_GENERATION, state |-> "regular"]]
  /\ citer = 1
  /\ cworker = [w \in Workers |-> [pc |-> "done", region |-> 0]]
  /\ cfilled = [r \in Regions |-> << >>]

(***************************************************************************)
(* update_heap_references: ShenandoahGenerationalUpdateHeapRefsTask.       *)
(* A region has ChunksPerRegion work chunks of ChunkWords words; offsets   *)
(* and watermarks are in words from the region's bottom.                   *)
(***************************************************************************)
Chunks == 1..(NumRegions * ChunksPerRegion)

\* The assignment of a work chunk: its region and its offset in the region.
chunk_region(c) == ((c - 1) \div ChunksPerRegion) + 1
chunk_offset(c) == ((c - 1) % ChunksPerRegion) * ChunkWords

\* The kinds of region the update of the references meets: the collection
\* set is not recycled yet, and a free region can be seen active before its
\* affiliation is.
UpdateKinds ==
  << [aff |-> OLD_GENERATION, state |-> "regular", watermark |-> ChunkWords + 1],
     [aff |-> YOUNG_GENERATION, state |-> "regular",
      watermark |-> ChunksPerRegion * ChunkWords],
     [aff |-> OLD_GENERATION, state |-> "cset",
      watermark |-> ChunksPerRegion * ChunkWords],
     [aff |-> OLD_GENERATION, state |-> "humongous", watermark |-> ChunkWords],
     [aff |-> "FREE", state |-> "empty", watermark |-> 0],
     [aff |-> "FREE", state |-> "regular", watermark |-> 0] >>

\* The heap with the kinds in turn, from the k-th on.
HeapLayout(k) ==
  [r \in Regions |-> UpdateKinds[((r + k - 1) % Len(UpdateKinds)) + 1]]

\* collection_set()->has_old_regions()
is_mixed(regions) == \E r \in Regions : is_cset(regions[r]) /\ is_old(regions[r])

\* The mutant of region_scan_wanted: old regions are scanned in the region
\* loop of every cycle.
region_scan_wanted_any_cycle(r, global) ==
  is_active(r) /\ ~is_cset(r) /\ (is_young(r) \/ is_old(r))

\* Lines 773-805: whether the region loop scans the region
\* (marked_object_oop_iterate up to the update watermark).
region_scan_wanted(r, global) ==
  is_active(r) /\ ~is_cset(r) /\ (is_young(r) \/ (is_old(r) /\ global))

\* Line 828: whether the chunk loop looks into the chunk's region.
chunk_scan_wanted(r) == is_active(r) /\ ~is_cset(r) /\ is_old(r)

\* Lines 829-833: the range of the chunk, cut at the update watermark.
chunk_range(r, offset) ==
  [from |-> offset, to |-> MIN2(r.watermark, offset + ChunkWords)]

\* The mutant of region_loop_next: a cancelled worker breaks out of the
\* region loop only.
region_loop_break(cancelled, global) ==
  IF cancelled THEN (IF global THEN "returned" ELSE "chunk_check") ELSE "next"

\* Lines 809-812: after a region, check_cancelled_gc_and_yield.
region_loop_next(cancelled, global) ==
  IF cancelled THEN "returned" ELSE "next"

\* The mutant of after_regions: the work chunks are left alone.
after_regions_return(global) == "returned"

\* Line 815: with the regions exhausted, the remembered set is processed
\* unless the cycle is global.
after_regions(global) == IF global THEN "returned" ELSE "chunk_check"

\* The mutant of moves_collector_sets: every worker of a concurrent run
\* replenishes the Mutator free set.
moves_collector_sets_any_worker(concurrent, worker_id) == concurrent

\* Line 752: the worker that replenishes the Mutator free set.
moves_collector_sets(concurrent, worker_id) == concurrent /\ worker_id = 0

\* Lines 750-760: the worker enters do_work; the one worker of line 752
\* moves the collector's reserves to the Mutator free set before it asks for
\* a region.  Worker w has worker_id w - 1.
StartWorker(w) ==
  /\ uworker[w].pc = "start"
  /\ uworker' = [uworker EXCEPT ![w].pc = "next"]
  /\ upd' = [upd EXCEPT
               !.moved = IF moves_collector_sets(upd.concurrent, w - 1)
                         THEN Append(@, w)
                         ELSE @]
  /\ UNCHANGED << uregion, uiter, uchunk, ulog >>
  /\ UNCHANGED << evacVars, balVars, labVars, endVars >>

\* The mutant of NextRegion: the region is handed out and the iterator stays.
NextRegion_peek(w) ==
  /\ uworker[w].pc = "next"
  /\ uiter <= NumRegions
  /\ uworker' = [uworker EXCEPT ![w].pc = "scan", ![w].region = uiter]
  /\ ulog' = [ulog EXCEPT !.region_claims[uiter] = Append(@, w)]
  /\ UNCHANGED << upd, uregion, uiter, uchunk >>
  /\ UNCHANGED << evacVars, balVars, labVars, endVars >>

\* _regions->next(), lines 762 and 812: one atomic claim of the next index.
NextRegion(w) ==
  /\ uworker[w].pc = "next"
  /\ IF uiter <= NumRegions
     THEN /\ uworker' = [uworker EXCEPT ![w].pc = "scan", ![w].region = uiter]
          /\ uiter' = uiter + 1
          /\ ulog' = [ulog EXCEPT !.region_claims[uiter] =
                        Append(@, w)]
     ELSE /\ uworker' = [uworker EXCEPT ![w].pc = after_regions(upd.global),
                                        ![w].region = 0]
          /\ UNCHANGED << uiter, ulog >>
  /\ UNCHANGED << upd, uregion, uchunk >>
  /\ UNCHANGED << evacVars, balVars, labVars, endVars >>

\* Lines 767-808: the body of the region loop.
ScanRegion(w) ==
  /\ uworker[w].pc = "scan"
  /\ uworker' = [uworker EXCEPT ![w].pc = "check"]
  /\ ulog' = [ulog EXCEPT !.scans[uworker[w].region] =
                IF region_scan_wanted(uregion[uworker[w].region], upd.global)
                THEN Append(@, [by |-> w,
                                limit |-> uregion[uworker[w].region].watermark])
                ELSE @]
  /\ UNCHANGED << upd, uregion, uiter, uchunk >>
  /\ UNCHANGED << evacVars, balVars, labVars, endVars >>

\* Lines 809-811: the cancellation check that ends each turn of the region loop.
CheckRegion(w) ==
  /\ uworker[w].pc = "check"
  /\ uworker' = [uworker EXCEPT ![w].pc = region_loop_next(upd.cancelled, upd.global),
                                ![w].region = 0,
                                ![w].region_checks = @ + 1,
                                ![w].observed = IF upd.cancelled THEN "region" ELSE @]
  /\ UNCHANGED << upd, uregion, uiter, uchunk, ulog >>
  /\ UNCHANGED << evacVars, balVars, labVars, endVars >>

\* Line 825, first half of the loop condition: the cancellation check.
CheckChunk(w) ==
  /\ uworker[w].pc = "chunk_check"
  /\ uworker' = [uworker EXCEPT ![w].pc = IF upd.cancelled THEN "returned"
                                          ELSE "chunk_next",
                                ![w].chunk = 0,
                                ![w].in_chunks = TRUE,
                                ![w].chunk_checks = @ + 1,
                                ![w].observed = IF upd.cancelled /\ @ = "no"
                                                THEN "chunk" ELSE @]
  /\ UNCHANGED << upd, uregion, uiter, uchunk, ulog >>
  /\ UNCHANGED << evacVars, balVars, labVars, endVars >>

\* Line 825, second half: _work_chunks->next(&assignment), one atomic claim.
NextChunk(w) ==
  /\ uworker[w].pc = "chunk_next"
  /\ IF uchunk <= NumRegions * ChunksPerRegion
     THEN /\ uworker' = [uworker EXCEPT ![w].pc = "chunk_scan", ![w].chunk = uchunk]
          /\ uchunk' = uchunk + 1
          /\ ulog' = [ulog EXCEPT !.chunk_claims[uchunk] =
                        Append(@, w)]
     ELSE /\ uworker' = [uworker EXCEPT ![w].pc = "returned"]
          /\ UNCHANGED << uchunk, ulog >>
  /\ UNCHANGED << upd, uregion, uiter >>
  /\ UNCHANGED << evacVars, balVars, labVars, endVars >>

\* The scan of a chunk is the one of a mixed cycle (mark bits, or the slice
\* of a humongous region) or the one of a young cycle (remembered set).
chunk_scan_kind(r, mixed) ==
  IF mixed
  THEN (IF is_humongous(r) THEN "humongous_slice" ELSE "marked_objects")
  ELSE "process_region_slice"

\* Lines 827-925: the body of the chunk loop.
ScanChunk(w) ==
  /\ uworker[w].pc = "chunk_scan"
  /\ uworker' = [uworker EXCEPT ![w].pc = "chunk_check"]
  /\ LET c == uworker[w].chunk
         r == uregion[chunk_region(c)]
         range == chunk_range(r, chunk_offset(c))
     IN ulog' = [ulog EXCEPT !.chunk_scans[c] =
                   IF chunk_scan_wanted(r) /\ range.from < range.to
                   THEN Append(@, [by |-> w, from |-> range.from, to |-> range.to,
                                   how |-> chunk_scan_kind(r, is_mixed(uregion))])
                   ELSE @]
  /\ UNCHANGED << upd, uregion, uiter, uchunk >>
  /\ UNCHANGED << evacVars, balVars, labVars, endVars >>

\* Lines 791-799: while the references are updated a FREE inactive region
\* becomes active, and its active status is seen before its affiliation.
UpdActivate(r) ==
  /\ upd.running
  /\ upd.concurrent
  /\ uregion[r].aff = "FREE"
  /\ ~is_active(uregion[r])
  /\ uregion' = [uregion EXCEPT ![r].state = "regular"]
  /\ UNCHANGED << upd, uiter, uchunk, uworker, ulog >>
  /\ UNCHANGED << evacVars, balVars, labVars, endVars >>

\* Lines 791-803: the affiliation of the new region becomes visible; its
\* update watermark is its bottom.
UpdAffiliate(r) ==
  /\ upd.running
  /\ upd.concurrent
  /\ uregion[r].aff = "FREE"
  /\ is_active(uregion[r])
  /\ uregion' = [uregion EXCEPT ![r].aff = YOUNG_GENERATION]
  /\ UNCHANGED << upd, uiter, uchunk, uworker, ulog >>
  /\ UNCHANGED << evacVars, balVars, labVars, endVars >>

\* The collection is cancelled while the references are updated.
UpdCancel ==
  /\ upd.running
  /\ ~upd.cancelled
  /\ upd' = [upd EXCEPT !.cancelled = TRUE]
  /\ UNCHANGED << uregion, uiter, uchunk, uworker, ulog >>
  /\ UNCHANGED << evacVars, balVars, labVars, endVars >>

\* workers()->run_task returns when every worker has, lines 936-942, and
\* update_heap_references goes on to its assertion.
UpdReturn ==
  /\ upd.running
  /\ \A w \in Workers : uworker[w].pc = "returned"
  /\ upd' = [upd EXCEPT !.running = FALSE, !.returned = TRUE]
  /\ UNCHANGED << uregion, uiter, uchunk, uworker, ulog >>
  /\ UNCHANGED << evacVars, balVars, labVars, endVars >>

NoUpdWorker ==
  [pc |-> "returned", region |-> 0, chunk |-> 0, observed |-> "no",
   in_chunks |-> FALSE, region_checks |-> 0, chunk_checks |-> 0]

NoUpdLog ==
  [region_claims |-> [r \in Regions |-> << >>], scans |-> [r \in Regions |-> << >>],
   chunk_claims |-> [c \in Chunks |-> << >>], chunk_scans |-> [c \in Chunks |-> << >>]]

UpdInit ==
  /\ \E global, concurrent \in BOOLEAN :
       upd = [global |-> global, concurrent |-> concurrent, cancelled |-> FALSE,
              running |-> TRUE, returned |-> FALSE, moved |-> << >>]
  /\ \E k \in 0..(Len(UpdateKinds) - 1) : uregion = HeapLayout(k)
  /\ uiter = 1
  /\ uchunk = 1
  /\ uworker = [w \in Workers |-> [NoUpdWorker EXCEPT !.pc = "start"]]
  /\ ulog = NoUpdLog

NextUpdate ==
  \/ \E w \in Workers : StartWorker(w)
  \/ \E w \in Workers : NextRegion(w)
  \/ \E w \in Workers : ScanRegion(w)
  \/ \E w \in Workers : CheckRegion(w)
  \/ \E w \in Workers : CheckChunk(w)
  \/ \E w \in Workers : NextChunk(w)
  \/ \E w \in Workers : ScanChunk(w)
  \/ \E r \in Regions : UpdActivate(r)
  \/ \E r \in Regions : UpdAffiliate(r)
  \/ UpdCancel
  \/ UpdReturn

UpdIdle ==
  /\ upd = [global |-> FALSE, concurrent |-> FALSE, cancelled |-> FALSE,
            running |-> FALSE, returned |-> FALSE, moved |-> << >>]
  /\ uregion = HeapLayout(0)
  /\ uiter = 1
  /\ uchunk = 1
  /\ uworker = [w \in Workers |-> NoUpdWorker]
  /\ ulog = NoUpdLog

\* No generation balancing goes on while the threads evacuate, and no
\* evacuation while the generations are balanced.
BalIdle ==
  /\ gen = [old_available |-> 0, free_unaffiliated_regions |-> 0,
            young_max_capacity |-> 0,
            has_unprocessed_collection_candidates |-> FALSE,
            unprocessed_collection_candidates_live_memory |-> 0,
            promotion_potential |-> 0, ShenandoahOldEvacRatioPercent |-> 0]
  /\ region_balance = 0
  /\ bal = NoBal
  /\ xfer = NoXfer
  /\ failed_xfers = 0

EvacIdle ==
  /\ active_young = TRUE
  /\ aging_cycle = TRUE
  /\ quota = [t \in Threads |-> 0]
  /\ fwd = [o \in Objects |-> NoFwd]
  /\ tld = [t \in Threads |-> InitTLD(TRUE)]
  /\ pc = [t \in Threads |-> "idle"]
  /\ frame = [t \in Threads |-> NoFrame]
  /\ ncalls = [t \in Threads |-> 0]
  /\ last = NoCall
  /\ returned = [o \in Objects |-> {}]
  /\ wins = [o \in Objects |-> 0]
  /\ promo_tried = {}
  /\ old_failed_evac = FALSE
  /\ retire_log = << >>
  /\ evac_log = NoEvacLog
  /\ accounted = [o \in Objects |-> NoAccount]

vars == << evacVars, balVars, labVars, endVars, updVars >>

\* The evacuation of a cycle.
Init == EvacInit /\ BalIdle /\ LabIdle /\ EndIdle /\ UpdIdle
Spec == Init /\ [][Next]_vars

\* The balancing of the generations at the end of a cycle.
InitBalance == EvacIdle /\ BalInit /\ LabIdle /\ EndIdle /\ UpdIdle
SpecBalance == InitBalance /\ [][NextBalance]_vars

\* One thread's buffers over a cycle.
InitLab == EvacIdle /\ BalIdle /\ LabInit /\ EndIdle /\ UpdIdle
SpecLab == InitLab /\ [][NextLab]_vars

\* The same under every configuration of the PLAB's maximum size.
InitLabConfig == EvacIdle /\ BalIdle /\ LabConfigInit /\ EndIdle /\ UpdIdle
SpecLabConfig == InitLabConfig /\ [][NextLab]_vars

\* The completion of a cycle, degenerated or concurrent.
InitComplete == EvacIdle /\ BalIdle /\ LabIdle /\ EndInit /\ UpdIdle
SpecComplete == InitComplete /\ [][NextComplete]_vars

\* The update of the heap references by the workers.
InitUpdate == EvacIdle /\ BalIdle /\ LabIdle /\ EndIdle /\ UpdInit
SpecUpdate == InitUpdate /\ [][NextUpdate]_vars

(***************************************************************************)
(* Properties of the evacuation.                                           *)
(***************************************************************************)
\* C1: for every object, however many threads evacuate it, exactly one
\* compare-and-swap succeeds: the "our copy is the public one" branch runs at
\* most once per object, the forwarding slot is set exactly when it has run,
\* and the thread that ran it returned the copy the slot holds.
C1_SingleCanonicalCopy ==
  /\ \A o \in Objects : wins[o] <= 1 /\ (wins[o] = 1 <=> fwd[o] # NoFwd)
  /\ last.how = "won" =>
       /\ fwd[last.obj].thr = last.thr
       /\ last.ref = CopyRef(fwd[last.obj].thr, fwd[last.obj].ser)

\* Two threads raced on an object: one has won, the other has just lost.
C1_RaceHappened ==
  /\ last.how = "lost"
  /\ wins[last.obj] = 1
  /\ fwd[last.obj].thr # last.thr

\* C2: a thread that loses the race disposes of its copy before it returns
\* and returns the winner's copy: a GCLAB or PLAB copy is rolled back (the
\* buffer's remaining words go up by the object's size and, for a promotion,
\* plab_promoted goes down by the object's bytes), a shared copy is filled;
\* no losing copy is left looking live.
C2_LoserDisposesCopy ==
  [][ last'.how = "lost" =>
        LET t == last'.thr
            o == last'.obj
            size == Obj(o).size
        IN /\ pc[t] = "install" /\ pc'[t] = "idle"
           /\ fwd[o] # NoFwd
           /\ last'.ref = CopyRef(fwd[o].thr, fwd[o].ser)
           /\ last'.ref # CopyRef(t, ncalls[t])
           /\ last'.left \in {"undone", "filled"}
           /\ (frame[t].lab /\ frame[t].target = YOUNG_GENERATION) =>
                /\ last'.left = "undone"
                /\ tld'[t] = [tld[t] EXCEPT !.gclab_rem = @ + size]
           /\ (frame[t].lab /\ frame[t].target = OLD_GENERATION) =>
                /\ last'.left = "undone"
                /\ tld'[t].plab_rem = tld[t].plab_rem + size
                /\ tld'[t].plab_promoted =
                     IF Obj(o).aff = YOUNG_GENERATION
                     THEN tld[t].plab_promoted - size * HeapWordSize
                     ELSE tld[t].plab_promoted
           /\ ~frame[t].lab => last'.left = "filled" /\ tld'[t] = tld[t]
    ]_vars

\* A promotion out of a PLAB has just lost the race and was rolled back.
C2_PromotionRolledBack ==
  /\ last.how = "lost"
  /\ last.left = "undone"
  /\ last.target = OLD_GENERATION
  /\ Obj(last.obj).aff = YOUNG_GENERATION

\* C3: all calls of evacuate_object on one object in a cycle return the
\* same reference, whatever the interleaving and whatever the allocations
\* gave (buffer, shared, failed promotion, out of memory).
C3_SameReference ==
  \A o \in Objects : Cardinality(returned[o]) <= 1

\* A thread that ran out of memory has just returned the copy another thread
\* installed while it waited.
C3_OomReturnsOthersCopy ==
  /\ last.how = "oom"
  /\ last.ref[1] = "copy"
  /\ last.ref[2] # last.thr

\* C4: a forwarding slot that holds a copy is never changed by a later step
\* of any thread, and every call on the object that returns afterwards
\* returns that copy.
C4_ForwardingSlotImmutable ==
  [][ /\ \A o \in Objects : fwd[o] # NoFwd => fwd'[o] = fwd[o]
      /\ (last'.how # "none" /\ fwd[last'.obj] # NoFwd) =>
           last'.ref = CopyRef(fwd[last'.obj].thr, fwd[last'.obj].ser)
    ]_vars

\* A call made on an object already forwarded has just returned the copy
\* from the mark word.
C4_LaterCallOnForwarded ==
  /\ last.how = "forwarded"
  /\ fwd[last.obj] # NoFwd
  /\ last.ref = CopyRef(fwd[last.obj].thr, fwd[last.obj].ser)

\* Whether the object of a young region is old enough to be promoted.
Tenured(o) == Obj(o).rage + Obj(o).age >= TenuringThreshold

\* C5: an object of a young region is copied into the old generation only
\* when the active generation is young and region age + object age reaches
\* the tenuring threshold: this holds of every attempt, of every copy a
\* thread holds and of every copy installed.
C5_PromotionOnlyWhenTenured ==
  /\ \A o \in promo_tried :
       active_young /\ Obj(o).aff = YOUNG_GENERATION /\ Tenured(o)
  /\ \A t \in Threads :
       (frame[t].target = OLD_GENERATION /\ Obj(frame[t].obj).aff = YOUNG_GENERATION)
         => (active_young /\ Tenured(frame[t].obj))
  /\ \A o \in Objects :
       (fwd[o].gen = OLD_GENERATION /\ Obj(o).aff = YOUNG_GENERATION)
         => (active_young /\ Tenured(o))

\* One object of a young region was promoted, and another, below the
\* threshold, was copied within the young generation.
C5_PromotedAndKeptYoung ==
  /\ \E o \in Objects :
       Obj(o).aff = YOUNG_GENERATION /\ fwd[o].gen = OLD_GENERATION
  /\ \E o \in Objects :
       Obj(o).aff = YOUNG_GENERATION /\ ~Tenured(o) /\ fwd[o].gen = YOUNG_GENERATION

\* C6: a thread whose out-of-memory latch is set is outside
\* try_evacuate_object and stays there: each of its later calls returns the
\* resolved forwarding target (the object itself when not forwarded), leaves
\* its buffers and counters as they are, asks for no memory and leaves every
\* forwarding slot alone.
C6_LatchedThreadOnlyResolves ==
  [][ \A t \in Threads :
        tld[t].oom =>
          /\ pc[t] = "idle" /\ pc'[t] = "idle"
          /\ tld'[t] = tld[t]
          /\ ncalls'[t] # ncalls[t] =>
               /\ last'.thr = t
               /\ last'.how = "latched"
               /\ last'.ref = resolve_forwarded(last'.obj)
               /\ fwd' = fwd
               /\ retire_log' = << >>
               /\ old_failed_evac' = old_failed_evac
    ]_vars

\* A thread latched by an earlier call has just been handed back an object
\* that is not forwarded.
C6_LatchedCallReturnedObject ==
  /\ last.how = "latched"
  /\ tld[last.thr].oom
  /\ last.ref = OrigRef(last.obj)

max_old_region_xfer == bal.old_xfer_limit \div RegionSizeBytes

\* The unaffiliated regions of old, those of the outgoing collection set
\* counted in.
unaffiliated_old_regions == gen.free_unaffiliated_regions + bal.old_cset_regions

\* The magnitude of the region balance the last computation set.
balance_magnitude ==
  IF bal.region_balance < 0 THEN 0 - bal.region_balance ELSE bal.region_balance

\* The balance the old generation holds is the one the computation set, until
\* balance_generations takes it.
BalanceIsSet == bal.called /\ (~xfer.called => region_balance = bal.region_balance)

\* C8, as stated: for every input, the number of regions marked for
\* transfer, in either direction, is at most old_xfer_limit in whole regions.
C8_AnyTransferWithinLimit ==
  bal.called => balance_magnitude <= max_old_region_xfer

\* C8: the number of regions compute_old_generation_balance marks for
\* transfer from young to old (a negative region balance) never exceeds
\* old_xfer_limit in whole regions; a surplus handed to young is not held to
\* that limit.
C8_TransferToOldWithinLimit ==
  bal.called =>
    /\ ~xfer.called => region_balance = bal.region_balance
    /\ bal.region_balance < 0 => 0 - bal.region_balance <= max_old_region_xfer

\* Old needs more regions than the limit allows, and is given the limit.
C8_DeficitCutToLimit ==
  /\ BalanceIsSet
  /\ region_balance < 0
  /\ 0 - region_balance = max_old_region_xfer
  /\ (bal.old_reserve - bal.max_old_available + RegionSizeBytes - 1) \div RegionSizeBytes
       > max_old_region_xfer

\* C9, as stated: a transfer from young to old (a negative region balance)
\* never exceeds free_unaffiliated_regions + old_cset_regions.
C9_TransferToOldWithinUnaffiliated ==
  (bal.called /\ bal.region_balance < 0)
    => 0 - bal.region_balance <= unaffiliated_old_regions

\* C9: a transfer from old to young (a positive region balance) never
\* exceeds free_unaffiliated_regions + old_cset_regions; a transfer from
\* young to old is held to old_xfer_limit only.
C9_TransferToYoungWithinUnaffiliated ==
  bal.called =>
    /\ ~xfer.called => region_balance = bal.region_balance
    /\ bal.region_balance > 0 => bal.region_balance <= unaffiliated_old_regions
    /\ bal.region_balance < 0 => bal.max_old_available < bal.old_reserve

\* Old has a larger surplus than it has unaffiliated regions, and hands over
\* the unaffiliated ones.
C9_SurplusCutToUnaffiliated ==
  /\ BalanceIsSet
  /\ region_balance > 0
  /\ region_balance = unaffiliated_old_regions
  /\ (bal.max_old_available - bal.old_reserve) \div RegionSizeBytes > unaffiliated_old_regions

\* C10: when what old has available plus the bytes of the regions of the
\* outgoing collection set is at least the ideal old reserve, the region
\* balance is non-negative and equals
\* min(floor((available + recycled - reserve) / region size), unaffiliated).
C10_SurplusBalance ==
  (bal.called /\ gen.old_available + bal.old_cset_regions * RegionSizeBytes >= bal.old_reserve)
    => /\ bal.region_balance >= 0
       /\ bal.region_balance =
            MIN2((gen.old_available + bal.old_cset_regions * RegionSizeBytes
                    - bal.old_reserve) \div RegionSizeBytes,
                 unaffiliated_old_regions)
       /\ bal.region_balance <= unaffiliated_old_regions
       /\ ~xfer.called => region_balance = bal.region_balance

\* A surplus that is no whole number of regions, with regions recycled from
\* the collection set, is rounded down and handed to young in full.
C10_SurplusRoundedDown ==
  /\ BalanceIsSet
  /\ bal.old_cset_regions > 0
  /\ bal.old_reserve > 0
  /\ bal.max_old_available >= bal.old_reserve
  /\ (bal.max_old_available - bal.old_reserve) % RegionSizeBytes # 0
  /\ region_balance > 0
  /\ region_balance < unaffiliated_old_regions

(***************************************************************************)
(* Properties of the buffer manager.                                       *)
(***************************************************************************)
\* The preferred PLAB size the slow path starts from: the recorded one, or
\* the minimum when none is recorded.
cur_size_of(recorded) == IF recorded = 0 THEN plab_min_size ELSE recorded

\* C11, as stated: the size the slow path asks the shared allocator for is
\* the recorded preferred size doubled, capped at plab_max_size.
C11_RequestIsDoubledSize ==
  labcall.reqs # << >> =>
    labcall.reqs[1].word_size =
      MIN2(2 * cur_size_of(labcall.before.plab_size), plab_max_size)

\* C11: whenever the slow path retires the PLAB and asks for a new one, it
\* asks for the recorded preferred size (the minimum when none is recorded,
\* or after the reset of a retry); the doubled size, capped at
\* plab_max_size, is what it records as the preferred size of the next
\* refill.
C11_RequestIsRecordedSize ==
  /\ Len(labcall.retired) = Len(labcall.reqs)
  /\ labcall.reqs # << >> =>
       /\ labcall.reqs[1].word_size = cur_size_of(labcall.before.plab_size)
       /\ \A i \in 1..Len(labcall.reqs) :
            /\ labcall.reqs[i].future_size =
                 MIN2(2 * labcall.reqs[i].word_size, plab_max_size)
            /\ labcall.reqs[i].word_size >= labcall.reqs[i].min_size
            /\ i > 1 => labcall.reqs[i].word_size = labcall.reset_to
       /\ labcall.op = "plab" => labcall.after.plab_size = labcall.reqs[1].future_size

\* A thread with a recorded preferred size below the maximum has had its
\* PLAB refilled at that size, and the doubled size recorded.
C11_RefilledAtRecordedSize ==
  /\ labcall.op = "plab"
  /\ labcall.before.plab_size > 0
  /\ Len(labcall.reqs) = 1
  /\ labcall.reqs[1].granted
  /\ labcall.reqs[1].word_size = labcall.before.plab_size
  /\ labcall.reqs[1].word_size < labcall.reqs[1].future_size
  /\ labcall.after.plab_size = 2 * labcall.before.plab_size

\* The last request for a new PLAB of the call just made.
last_req == labcall.reqs[Len(labcall.reqs)]

\* C12, as stated: whenever the request for a new PLAB fails, the thread's
\* PLAB promotions are disabled, whatever the size of the object.
C12_FailedRefillDisablesPromotions ==
  (labcall.reqs # << >> /\ ~last_req.granted) => ~labcall.after.allow_plab_promotions

\* C12: the minimum acceptable size is max(object size rounded up to the
\* card, plab_min_size); when the request for a new PLAB fails, the
\* promotions are disabled if that minimum is plab_min_size, and stay as
\* they were for a larger object.
C12_FailedMinimalRefillDisablesPromotions ==
  /\ \A i \in 1..Len(labcall.reqs) :
       labcall.reqs[i].min_size = MAX2(align_up(labcall.size, CardSizeInWords), plab_min_size)
  /\ (labcall.reqs # << >> /\ ~last_req.granted) =>
       /\ ~labcall.obj
       /\ last_req.min_size = plab_min_size => ~labcall.after.allow_plab_promotions
       /\ (labcall.op = "plab" /\ last_req.min_size # plab_min_size) =>
            labcall.after.allow_plab_promotions = labcall.before.allow_plab_promotions

\* A promotion of an object larger than plab_min_size was refused a new
\* PLAB, and the thread may still promote.
C12_LargeRequestFailedStillEnabled ==
  /\ labcall.op = "plab"
  /\ labcall.is_promotion
  /\ labcall.reqs # << >>
  /\ ~last_req.granted
  /\ last_req.min_size > plab_min_size
  /\ labcall.after.allow_plab_promotions

\* A request at plab_min_size failed and disabled the promotions.
C12_MinimalRequestFailedDisabled ==
  /\ labcall.op = "plab"
  /\ labcall.reqs # << >>
  /\ ~last_req.granted
  /\ last_req.min_size = plab_min_size
  /\ labcall.before.allow_plab_promotions
  /\ ~labcall.after.allow_plab_promotions

(***************************************************************************)
(* Properties of balance_generations.                                      *)
(***************************************************************************)
\* The step is a call of balance_generations.
BalanceStep == ~xfer.called /\ xfer'.called

\* C13: balance_generations leaves the pending region balance at zero on
\* every path and asks for exactly one transfer of |balance| regions, to
\* young for a positive balance, to old for a negative one, and for no
\* transfer when the balance is zero.
C13_BalanceResetOneTransfer ==
  [][BalanceStep =>
       /\ region_balance' = 0
       /\ region_balance > 0 =>
            xfer'.asked = << << "young", region_balance >> >>
       /\ region_balance < 0 =>
            xfer'.asked = << << "old", 0 - region_balance >> >>
       /\ region_balance = 0 => xfer'.asked = << >>]_vars

\* A transfer to old of a computed deficit failed, and the balance is zero.
C13_FailedTransferLeftZero ==
  /\ xfer.called
  /\ bal.called
  /\ bal.region_balance < 0
  /\ xfer.asked = << << "old", 0 - bal.region_balance >> >>
  /\ ~xfer.success
  /\ region_balance = 0

\* C14: the old generation is notified of a failed transfer exactly when a
\* transfer into old fails, and the success flag returned is the outcome of
\* the transfer (true when there was none).
C14_NotifiedOnFailedTransferToOld ==
  [][BalanceStep =>
       /\ failed_xfers' - failed_xfers =
            IF xfer'.region_destination = "old" /\ ~xfer'.success THEN 1 ELSE 0
       /\ \A success \in BOOLEAN :
            BalanceGenerations(success) =>
              xfer'.success = (IF region_balance = 0 THEN TRUE ELSE success)
       /\ xfer'.region_destination =
            IF region_balance > 0 THEN "young"
            ELSE IF region_balance < 0 THEN "old" ELSE "none"]_vars

\* A transfer to young failed and the old generation was not notified.
C14_FailedTransferToYoungSilent ==
  /\ xfer.called
  /\ xfer.region_destination = "young"
  /\ xfer.region_count > 0
  /\ ~xfer.success
  /\ failed_xfers = 0

\* A transfer to old failed and the old generation was notified once.
C14_FailedTransferToOldNotified ==
  /\ xfer.called
  /\ xfer.region_destination = "old"
  /\ ~xfer.success
  /\ failed_xfers = 1

(***************************************************************************)
(* Properties of the allocation failures and of the winner's accounting.   *)
(***************************************************************************)
\* The step just logged began with a promotion whose allocation failed.
PromotionFailed(log) ==
  /\ log.tries # << >>
  /\ log.tries[1].target = OLD_GENERATION
  /\ log.tries[1].from_young
  /\ ~log.tries[1].copy

\* C15: when the allocation for a promotion fails, try_evacuate_object
\* signals handle_failed_promotion and returns without entering the
\* out-of-memory protocol, without raising the thread's latch and without
\* signalling a failed evacuation, and the same call of evacuate_object goes
\* on to evacuate the object within the young generation.
C15_FailedPromotionFallsToYoung ==
  [][PromotionFailed(evac_log') =>
       /\ evac_log'.tries[1].signals = << "handle_failed_promotion" >>
       /\ ~evac_log'.tries[1].oom
       /\ ~tld'[evac_log'.thr].oom
       /\ old_failed_evac' = old_failed_evac
       /\ \A i \in 1..Len(evac_log'.tries) :
            ~Signalled(evac_log'.tries[i].signals, "handle_failed_evacuation")
       /\ Len(evac_log'.tries) = 2
       /\ evac_log'.tries[2].target = YOUNG_GENERATION
       /\ pc[evac_log'.thr] = "idle"
       /\ pc'[evac_log'.thr] \in {"install", "oomwait"}
       /\ frame'[evac_log'.thr].obj = evac_log'.obj
       /\ frame'[evac_log'.thr].target = YOUNG_GENERATION]_vars

\* A promotion failed for want of memory and the same call holds a copy of
\* the object in young, ahead of the compare-and-swap.
C15_PromotionFailedYoungCopyMade ==
  /\ PromotionFailed(evac_log)
  /\ Len(evac_log.tries) = 2
  /\ evac_log.tries[2].copy
  /\ pc[evac_log.thr] = "install"
  /\ frame[evac_log.thr].target = YOUNG_GENERATION
  /\ ~tld[evac_log.thr].oom
  /\ ~old_failed_evac

\* What the failure handling of C16 leaves in a state.
FailureHandled ==
  /\ \A i \in 1..Len(evac_log.tries) :
       ~evac_log.tries[i].copy =>
         /\ (evac_log.tries[i].target = OLD_GENERATION /\ ~evac_log.tries[i].from_young) =>
              /\ evac_log.tries[i].signals =
                   << "handle_failed_evacuation", "handle_alloc_failure_evac" >>
              /\ evac_log.tries[i].oom
         /\ evac_log.tries[i].target = YOUNG_GENERATION =>
              /\ evac_log.tries[i].signals = << "handle_alloc_failure_evac" >>
              /\ evac_log.tries[i].oom
         /\ evac_log.tries[i].oom =>
              /\ i = Len(evac_log.tries)
              /\ pc[evac_log.thr] = "oomwait"
              /\ frame[evac_log.thr].target = evac_log.tries[i].target
  /\ \A t \in Threads :
       (pc[t] = "oomwait" /\ frame[t].target = OLD_GENERATION) => old_failed_evac
  /\ last.how = "oom" =>
       /\ last.ref = resolve_forwarded(last.obj)
       /\ tld[last.thr].oom

\* C16: a failed allocation for an old-to-old evacuation tells the old
\* generation of a failed evacuation and takes the thread through the
\* out-of-memory protocol, which returns the object's forwarding target; a
\* failed allocation for a young target takes the out-of-memory protocol
\* only, with no failed-evacuation and no failed-promotion signal.
C16_FailureSignalsByTarget ==
  [][/\ FailureHandled'
     /\ old_failed_evac' # old_failed_evac =>
          \E i \in 1..Len(evac_log'.tries) :
            /\ evac_log'.tries[i].target = OLD_GENERATION
            /\ ~evac_log'.tries[i].from_young
            /\ ~evac_log'.tries[i].copy]_vars

\* A thread that found no memory for an old-to-old copy has returned the
\* copy another thread installed meanwhile.
C16_OldFailureReturnedOthersCopy ==
  /\ last.how = "oom"
  /\ last.target = OLD_GENERATION
  /\ last.ref # OrigRef(last.obj)
  /\ old_failed_evac

\* A thread found no memory for a young copy, after a failed promotion, and
\* waits in the out-of-memory protocol; no evacuation into old has failed.
C16_YoungFailureOnlyOom ==
  /\ PromotionFailed(evac_log)
  /\ Len(evac_log.tries) = 2
  /\ ~evac_log.tries[2].copy
  /\ pc[evac_log.thr] = "oomwait"
  /\ ~old_failed_evac

\* C17: the accounting of the target generation (end_evacuation, and
\* handle_evacuation for a copy into old) is done once for each evacuated
\* object, by the thread whose copy was installed, and never for a copy
\* that lost the race.
C17_WinnerAloneAccounts ==
  \A o \in Objects :
    /\ accounted[o].end_evacuation = (IF fwd[o] # NoFwd THEN 1 ELSE 0)
    /\ accounted[o].handle_evacuation =
         (IF fwd[o] # NoFwd /\ fwd[o].gen = OLD_GENERATION THEN 1 ELSE 0)

\* A thread lost the race with its copy into old, and the object is
\* accounted once.
C17_LoserIntoOldNotAccounted ==
  /\ last.how = "lost"
  /\ last.target = OLD_GENERATION
  /\ fwd[last.obj].thr # last.thr
  /\ accounted[last.obj].end_evacuation = 1

\* The call just made was an allocate_from_plab for a promotion by a thread
\* whose promotions were disabled.
DisabledPromotionCall ==
  /\ labcall.op = "plab"
  /\ labcall.is_promotion
  /\ ~labcall.before.allow_plab_promotions

\* What a promotion call of a thread with disabled promotions leaves.
FailsFast ==
  DisabledPromotionCall =>
    /\ ~labcall.obj
    /\ labcall.retired = << >>
    /\ labcall.reqs = << >>
    /\ labcall.after = labcall.before

\* C18, as stated: while a thread's PLAB promotions are disabled, a promotion
\* call of allocate_from_plab returns nothing and changes nothing, and no
\* step of the buffer manager enables the promotions again.
C18_DisabledForTheCycle ==
  [][/\ FailsFast'
     /\ ~labd.allow_plab_promotions => ~labd'.allow_plab_promotions]_vars

\* C18: while a thread's PLAB promotions are disabled, a promotion call of
\* allocate_from_plab returns nothing without bump-allocating, retiring the
\* PLAB, asking for a new one or changing the promoted counter or the
\* preferred size; the promotions stay disabled until a call that is not a
\* promotion is granted a new PLAB, whose grant sets the flag anew.
C18_DisabledUntilNewPlab ==
  [][/\ FailsFast'
     /\ (~labd.allow_plab_promotions /\ labd'.allow_plab_promotions) =>
          /\ ~labcall'.is_promotion
          /\ labcall'.target = OLD_GENERATION
          /\ labcall'.reqs # << >>
          /\ labcall'.reqs[Len(labcall'.reqs)].granted]_vars

\* A thread with disabled promotions and a PLAB too short for the minimum
\* was asked for a promotion and turned it away.
C18_DisabledPromotionTurnedAway ==
  /\ DisabledPromotionCall
  /\ labcall.before.plab
  /\ labcall.before.plab_rem < plab_min_size
  /\ labcall.size <= plab_min_size
  /\ ~labcall.obj
  /\ labcall.after = labcall.before

\* An evacuation within old got a new PLAB for a thread whose promotions
\* were disabled, and the thread may promote again.
C18_EnabledByNewPlab ==
  /\ ~labcall.is_promotion
  /\ labcall.reqs # << >>
  /\ ~labcall.before.allow_plab_promotions
  /\ labcall.after.allow_plab_promotions

\* The buffers gave nothing to the try_evacuate_object just made.
BuffersFailed == labcall.op = "evac" /\ labcall.from # "lab"

\* The shared request for_shared_gc(size, target_gen, is_promotion) of the
\* call just made.
SharedRequestOfCall ==
  << [size |-> labcall.size, affiliation |-> labcall.target,
      is_promotion |-> labcall.is_promotion] >>

\* C19, as stated: a promotion by a thread with a PLAB, for an object no
\* larger than the minimum PLAB size (plab_min_size, the card-aligned one),
\* never goes to the shared allocator; every other failed buffer allocation
\* does, with the target generation and the promotion flag.
C19_NoSharedUpToCardAlignedMin ==
  BuffersFailed =>
    IF labcall.is_promotion /\ labcall.has_plab /\ labcall.size <= plab_min_size
    THEN labcall.shared = << >>
    ELSE labcall.shared = SharedRequestOfCall

\* C19: a promotion by a thread with a PLAB, for an object no larger than
\* PLAB::min_size() (the unaligned minimum), never goes to the shared
\* allocator: the promotion fails with no shared request.  Every other
\* failed buffer allocation makes one shared request carrying the size, the
\* target generation and the promotion flag; a buffer allocation that
\* succeeds makes none.
C19_NoSharedUpToPLABMinSize ==
  /\ labcall.op = "evac" =>
       labcall.has_plab = (labcall.target = OLD_GENERATION /\ labcall.before.plab)
  /\ BuffersFailed =>
       IF labcall.is_promotion /\ labcall.has_plab /\ labcall.size <= PLABMinSize
       THEN labcall.shared = << >> /\ labcall.from = "none"
       ELSE labcall.shared = SharedRequestOfCall
  /\ (labcall.op = "evac" /\ labcall.from = "lab") => labcall.shared = << >>

\* A promotion of an object of plab_min_size words, larger than
\* PLAB::min_size(), by a thread with a PLAB went to the shared allocator.
C19_CardAlignedMinimumGoesShared ==
  /\ BuffersFailed
  /\ labcall.is_promotion
  /\ labcall.has_plab
  /\ labcall.size = plab_min_size
  /\ labcall.size > PLABMinSize
  /\ labcall.shared = SharedRequestOfCall

\* A small promotion by a thread with a PLAB failed with no shared request.
C19_SmallPromotionDeclined ==
  /\ BuffersFailed
  /\ labcall.is_promotion
  /\ labcall.has_plab
  /\ labcall.size <= PLABMinSize
  /\ labcall.shared = << >>
  /\ labcall.from = "none"

\* The first buffer allocation of the try_evacuate_object just made failed
\* for an object smaller than the buffer's configured size.
FirstFailedBelowConfigured ==
  /\ labcall.op = "evac"
  /\ ~labcall.first.obj
  /\ labcall.size < labcall.first.pref

\* The minimum the configured size of the target's buffer is reset to.
reset_size(target_gen) ==
  IF target_gen = YOUNG_GENERATION THEN PLABMinSize ELSE plab_min_size

\* C20, as stated: whenever the first buffer allocation fails and the object
\* is smaller than the buffer's configured size, the configured size is
\* reset to the minimum and the buffer is tried exactly once more, for a
\* GCLAB and for a PLAB alike.
C20_RetryWheneverBelowConfigured ==
  /\ labcall.op = "evac" => labcall.tries \in {1, 2}
  /\ FirstFailedBelowConfigured =>
       labcall.tries = 2 /\ labcall.reset_to = reset_size(labcall.target)

\* C20: the GCLAB is tried exactly once more, with its configured size reset
\* to PLAB::min_size(), whenever the first allocation fails and the object
\* is smaller than the configured size; the PLAB is tried once more, with
\* its configured size reset to plab_min_size, only when in addition the
\* thread's PLAB retries are enabled and the PLAB has less than
\* plab_min_size words left, and otherwise the allocation goes on to the
\* shared allocator with no retry.  No buffer is tried more than twice.
C20_RetryOnceWhenBufferIsSpent ==
  labcall.op = "evac" =>
    /\ labcall.tries \in {1, 2}
    /\ labcall.tries = 2 <=>
         /\ FirstFailedBelowConfigured
         /\ labcall.target = OLD_GENERATION =>
              /\ labcall.first.plab_retries_enabled
              /\ labcall.first.plab_rem < plab_min_size
    /\ labcall.tries = 2 => labcall.reset_to = reset_size(labcall.target)
    /\ labcall.tries = 1 => labcall.reset_to = 0
    /\ (labcall.tries = 2 /\ labcall.target = OLD_GENERATION /\ labcall.from # "lab") =>
         ~labcall.after.plab_retries_enabled

\* A PLAB with plab_min_size words or more left could not hold an object
\* smaller than its configured size: it was not tried again, and the copy
\* was asked of the shared allocator.
C20_PlabPreservedNoRetry ==
  /\ FirstFailedBelowConfigured
  /\ labcall.target = OLD_GENERATION
  /\ labcall.has_plab
  /\ labcall.first.plab_retries_enabled
  /\ labcall.first.plab_rem >= plab_min_size
  /\ labcall.tries = 1
  /\ labcall.shared # << >>

\* A GCLAB was tried again at the minimum size and gave the copy.
C20_GclabRetrySucceeded ==
  /\ FirstFailedBelowConfigured
  /\ labcall.target = YOUNG_GENERATION
  /\ labcall.tries = 2
  /\ labcall.from = "lab"

\* A spent PLAB was tried again at the minimum size and gave the copy.
C20_PlabRetrySucceeded ==
  /\ FirstFailedBelowConfigured
  /\ labcall.target = OLD_GENERATION
  /\ labcall.tries = 2
  /\ labcall.from = "lab"

(***************************************************************************)
(* Properties of the copy's age.                                           *)
(***************************************************************************)
\* The installed copy of o is a young copy made in an aging cycle.
AgedCopy(o) ==
  fwd[o] # NoFwd /\ fwd[o].gen = YOUNG_GENERATION /\ aging_cycle

C21_CopyOutsideAgingCycle ==
  \E o \in Objects :
    /\ fwd[o] # NoFwd
    /\ fwd[o].gen = YOUNG_GENERATION
    /\ ~aging_cycle
    /\ fwd[o].age = Obj(o).age

(***************************************************************************)
(* Properties of the deficit and of the reserves.                          *)
(***************************************************************************)
\* The bytes old is short of its ideal reserve, with the collection set
\* recycled.
old_shortfall ==
  bal.old_reserve - (gen.old_available + bal.old_cset_regions * RegionSizeBytes)

\* x bytes in whole regions, rounded up.
regions_up(x) ==
  IF x % RegionSizeBytes = 0 THEN x \div RegionSizeBytes ELSE (x \div RegionSizeBytes) + 1

\* C22: when old availability plus the recycled collection-set bytes is less
\* than the ideal old reserve, the region balance is set to minus
\* min(shortfall in regions rounded up, old_xfer_limit in regions rounded
\* down); it is never positive then, and zero when the limit is less than a
\* region.
C22_DeficitBalance ==
  (bal.called /\ old_shortfall > 0) =>
    /\ bal.region_balance = 0 - MIN2(regions_up(old_shortfall), max_old_region_xfer)
    /\ bal.region_balance <= 0
    /\ bal.old_xfer_limit < RegionSizeBytes => bal.region_balance = 0
    /\ ~xfer.called => region_balance = bal.region_balance

\* A shortfall that is no whole number of regions is rounded up and asked of
\* young in full.
C22_DeficitRoundedUp ==
  /\ BalanceIsSet
  /\ old_shortfall > 0
  /\ old_shortfall % RegionSizeBytes # 0
  /\ region_balance = 0 - ((old_shortfall \div RegionSizeBytes) + 1)
  /\ 0 - region_balance <= max_old_region_xfer

\* A shortfall with a transfer limit of less than a region leaves the
\* balance at zero.
C22_DeficitWithNoLimit ==
  /\ BalanceIsSet
  /\ old_shortfall > 0
  /\ bal.old_xfer_limit > 0
  /\ bal.old_xfer_limit < RegionSizeBytes
  /\ region_balance = 0

\* The memory the free set reserves for young evacuations.
young_reserve == (gen.young_max_capacity * ShenandoahEvacReserve) \div 100

\* C23: for every old-evacuation ratio in 0..100 the ideal old reserve
\* (mixed reserve + promotion reserve) is at most max_old_reserve, and so is
\* the mixed reserve alone; max_old_reserve is at most old availability +
\* transfer limit + young reserve, and at a ratio of 100 it is that sum.
C23_ReservesWithinBound ==
  bal.called =>
    /\ gen.ShenandoahOldEvacRatioPercent \in 0..100
    /\ bal.old_reserve = bal.reserve_for_mixed + bal.reserve_for_promo
    /\ bal.old_reserve <= bal.max_old_reserve
    /\ bal.reserve_for_mixed <= bal.max_old_reserve
    /\ bal.max_old_reserve <= gen.old_available + bal.old_xfer_limit + young_reserve
    /\ gen.ShenandoahOldEvacRatioPercent = 100 =>
         bal.max_old_reserve = gen.old_available + bal.old_xfer_limit + young_reserve
    /\ gen.ShenandoahOldEvacRatioPercent < 100 =>
         bal.max_old_reserve <=
           (young_reserve * gen.ShenandoahOldEvacRatioPercent)
             \div (100 - gen.ShenandoahOldEvacRatioPercent)

\* Below a ratio of 100, with a mixed collection pending, the promotions are
\* given what the mixed reserve leaves under the bound, less than they load.
C23_PromotionReserveCut ==
  /\ bal.called
  /\ gen.ShenandoahOldEvacRatioPercent < 100
  /\ bal.reserve_for_mixed > 0
  /\ bal.reserve_for_promo > 0
  /\ bal.reserve_for_promo < WasteBytes(gen.promotion_potential, ShenandoahPromoEvacWastePercent)
  /\ bal.old_reserve = bal.max_old_reserve
  /\ bal.max_old_reserve < gen.old_available + bal.old_xfer_limit + young_reserve

\* At a ratio of 100 the bound is the whole sum, and the reserve reaches it.
C23_RatioHundred ==
  /\ bal.called
  /\ gen.ShenandoahOldEvacRatioPercent = 100
  /\ young_reserve > 0
  /\ bal.max_old_reserve = gen.old_available + bal.old_xfer_limit + young_reserve
  /\ bal.old_reserve = bal.max_old_reserve

(***************************************************************************)
(* Properties of the completion of a cycle.                                *)
(***************************************************************************)
\* The calls the completing thread has made, by name.
CallOps == [i \in 1..Len(cyc.calls) |-> cyc.calls[i].op]

\* The call named op has been made.
Called(op) == \E i \in 1..Len(cyc.calls) : cyc.calls[i].op = op

\* Whether the old generation was parseable when the call named op was made.
ParseableAt(op) ==
  \A i \in 1..Len(cyc.calls) : cyc.calls[i].op = op => cyc.calls[i].parseable

\* C24: complete_degenerated_cycle drains the SATB entries into old marking,
\* if and only if concurrent old marking is in progress, then balances the
\* generations, then resets the generation reserves, then coalesces and
\* fills, if and only if the old generation is not parseable then.
C24_DegeneratedOrder ==
  (cyc.kind = "degenerated" /\ cyc.at = "return") =>
    /\ CallOps = (IF cyc.old_mark THEN << "satb" >> ELSE << >>)
                   \o << "balance", "reset" >>
                   \o (IF ParseableAt("reset") THEN << >>
                       ELSE << "coalesce", "set_parseable" >>)
    /\ cyc.satb_drained = (IF cyc.old_mark THEN 1 ELSE 0)
    /\ cyc.region_balance = 0
    /\ cyc.reserves = [young_evacuation |-> 0, old_evacuation |-> 0, old_promoted |-> 0]
    /\ cyc.parseable

\* A degenerated cycle with old marking in progress and an unparseable old
\* generation has made all four steps.
C24_DegeneratedAllSteps ==
  /\ cyc.kind = "degenerated"
  /\ cyc.at = "return"
  /\ cyc.old_mark
  /\ CallOps = << "satb", "balance", "reset", "coalesce", "set_parseable" >>

\* A degenerated cycle with a parseable old generation and no old marking
\* has balanced and reset only.
C24_DegeneratedShort ==
  /\ cyc.kind = "degenerated"
  /\ cyc.at = "return"
  /\ ~cyc.old_mark
  /\ CallOps = << "balance", "reset" >>

\* C25: complete_concurrent_cycle coalesces and fills, only when the old
\* generation is not parseable, before it takes the heap lock and never
\* while it holds it; it balances the generations and then resets the
\* reserves while it holds the lock, and releases the lock afterwards.
C25_ConcurrentLocking ==
  cyc.kind = "concurrent" =>
    /\ cyc.at = "coalescing" => ~cyc.lock_held
    /\ \A i \in 1..Len(cyc.calls) :
         /\ cyc.calls[i].op \in {"coalesce", "set_parseable"} => ~cyc.calls[i].locked
         /\ cyc.calls[i].op \in {"balance", "reset"} => cyc.calls[i].locked
         /\ cyc.calls[i].op = "coalesce" => (i = 1 /\ ~cyc.calls[i].parseable)
    /\ cyc.lock_held <=> cyc.at \in {"balance", "reset", "unlock"}
    /\ cyc.at = "return" =>
         /\ ~cyc.lock_held
         /\ CallOps = (IF Called("coalesce") THEN << "coalesce", "set_parseable" >>
                       ELSE << >>)
                        \o << "lock", "balance", "reset", "unlock" >>
         /\ Called("coalesce") \/ cyc.calls[1].parseable

\* A concurrent cycle has coalesced, then balanced and reset under the lock,
\* and has released the lock.
C25_CoalescedThenLocked ==
  /\ cyc.kind = "concurrent"
  /\ cyc.at = "return"
  /\ ~cyc.lock_held
  /\ CallOps = << "coalesce", "set_parseable", "lock", "balance", "reset", "unlock" >>

\* A concurrent cycle holds the lock between its balance and its reset.
C25_ResetUnderLock ==
  /\ cyc.kind = "concurrent"
  /\ cyc.at = "reset"
  /\ cyc.lock_held
  /\ Called("balance")

\* The regions the coalesce-and-fill pass is for.
CoalesceTarget(r) ==
  /\ is_old(cregion[r])
  /\ is_active(cregion[r])
  /\ ~is_cset(cregion[r])
  /\ ~is_humongous(cregion[r])

\* C26: coalesce_and_fill_old_regions coalesces every active old region that
\* is neither in the collection set nor humongous exactly once over all the
\* workers, and no other region; it goes on to the end when the collection
\* is cancelled during the pass; the old generation is marked parseable only
\* after every worker has finished.
C26_CoalesceEveryOldRegionOnce ==
  /\ \A r \in Regions :
       /\ Len(cfilled[r]) <= 1
       /\ Len(cfilled[r]) = 1 => CoalesceTarget(r)
  /\ cyc.at = "coalescing" => ~cyc.parseable
  /\ Called("set_parseable") =>
       /\ \A r \in Regions : CoalesceTarget(r) => Len(cfilled[r]) = 1
       /\ \A w \in Workers : cworker[w].pc = "done"
       /\ cyc.parseable
  /\ (Called("coalesce") /\ ~Called("set_parseable")) => cyc.at = "coalescing"

\* The pass went on after the collection was cancelled: of two old regions
\* one was coalesced before the cancellation and one after it, by different
\* workers, and the old generation is parseable.
C26_CoalescedThroughCancellation ==
  /\ Called("set_parseable")
  /\ cyc.cancelled
  /\ \E r1, r2 \in Regions :
       /\ Len(cfilled[r1]) = 1
       /\ Len(cfilled[r2]) = 1
       /\ ~cfilled[r1][1].cancelled
       /\ cfilled[r2][1].cancelled
       /\ cfilled[r1][1].by # cfilled[r2][1].by
  /\ \E r \in Regions : is_humongous(cregion[r]) /\ cfilled[r] = << >>

\* The regions and the chunks a worker has in hand.
RegionInHand(w) == IF uworker[w].pc \in {"scan", "check"} THEN uworker[w].region ELSE 0
ChunkInHand(w) == IF uworker[w].pc = "chunk_scan" THEN uworker[w].chunk ELSE 0

\* C27: while the heap references are updated, under every interleaving of
\* the workers, a region is claimed from the shared region iterator by one
\* worker only and a work chunk is handed to one worker only: the claimed
\* regions and chunks are those below the iterators' counters, each claimed
\* once; no region and no chunk is scanned twice or by a worker other than
\* the one that claimed it, and no two workers hold the same one.
C27_ClaimedByOneWorker ==
  /\ \A r \in Regions :
       /\ Len(ulog.region_claims[r]) = (IF r < uiter THEN 1 ELSE 0)
       /\ Len(ulog.scans[r]) <= 1
       /\ ulog.scans[r] # << >> => ulog.region_claims[r] = << ulog.scans[r][1].by >>
  /\ \A c \in Chunks :
       /\ Len(ulog.chunk_claims[c]) = (IF c < uchunk THEN 1 ELSE 0)
       /\ Len(ulog.chunk_scans[c]) <= 1
       /\ ulog.chunk_scans[c] # << >> =>
            ulog.chunk_claims[c] = << ulog.chunk_scans[c][1].by >>
  /\ \A w \in Workers :
       /\ RegionInHand(w) # 0 => ulog.region_claims[RegionInHand(w)] = << w >>
       /\ ChunkInHand(w) # 0 => ulog.chunk_claims[ChunkInHand(w)] = << w >>
  /\ \A w1, w2 \in Workers :
       w1 # w2 =>
         /\ RegionInHand(w1) # 0 => RegionInHand(w1) # RegionInHand(w2)
         /\ ChunkInHand(w1) # 0 => ChunkInHand(w1) # ChunkInHand(w2)

\* Two workers shared the work: they claimed different regions while both
\* were in the region loop, and scanned the two chunks of one old region.
C27_WorkersShareTheWork ==
  /\ \E r1, r2 \in Regions :
       /\ ulog.region_claims[r1] # << >>
       /\ ulog.region_claims[r2] # << >>
       /\ ulog.region_claims[r1][1] # ulog.region_claims[r2][1]
  /\ \E c1, c2 \in Chunks :
       /\ chunk_region(c1) = chunk_region(c2)
       /\ ulog.chunk_scans[c1] # << >>
       /\ ulog.chunk_scans[c2] # << >>
       /\ ulog.chunk_scans[c1][1].by # ulog.chunk_scans[c2][1].by

\* The region loop is done with the region: it was claimed and the worker
\* that claimed it has gone past its scan.
RegionLoopDone(r) ==
  /\ ulog.region_claims[r] # << >>
  /\ \A w \in Workers : ~(uworker[w].pc = "scan" /\ uworker[w].region = r)

\* The chunk loop is done with the chunk.
ChunkLoopDone(c) ==
  /\ ulog.chunk_claims[c] # << >>
  /\ \A w \in Workers : ChunkInHand(w) # c

\* The scan of the chunk that the chunk loop owes: of the chunk's range, when
\* it is not empty and the region is an active old one outside the
\* collection set.
ChunkScanDue(c) ==
  /\ chunk_scan_wanted(uregion[chunk_region(c)])
  /\ chunk_offset(c) < uregion[chunk_region(c)].watermark

ChunkScanned(c) ==
  /\ Len(ulog.chunk_scans[c]) = 1
  /\ ulog.chunk_scans[c][1].from = chunk_offset(c)
  /\ ulog.chunk_scans[c][1].to =
       MIN2(uregion[chunk_region(c)].watermark, chunk_offset(c) + ChunkWords)

\* C28: in a young or mixed cycle an active old region outside the
\* collection set is never scanned in the region loop, and is scanned through
\* its work chunks; in a global cycle the old regions are scanned in the
\* region loop and no work chunk is ever claimed; the regions of the
\* collection set and the inactive regions are scanned in neither phase.
C28_OldRegionsByCycleKind ==
  /\ ~upd.global =>
       /\ \A r \in Regions : is_old(uregion[r]) => ulog.scans[r] = << >>
       /\ \A c \in Chunks :
            /\ (ChunkLoopDone(c) /\ ChunkScanDue(c)) => ChunkScanned(c)
            /\ ulog.chunk_scans[c] # << >> => ChunkScanDue(c)
  /\ upd.global =>
       /\ uchunk = 1
       /\ \A w \in Workers : ~uworker[w].in_chunks
       /\ \A c \in Chunks : ulog.chunk_claims[c] = << >> /\ ulog.chunk_scans[c] = << >>
       /\ \A r \in Regions :
            (RegionLoopDone(r) /\ chunk_scan_wanted(uregion[r])) =>
              /\ Len(ulog.scans[r]) = 1
              /\ ulog.scans[r][1].limit = uregion[r].watermark
  /\ \A r \in Regions :
       (is_cset(uregion[r]) \/ ~is_active(uregion[r])) =>
         /\ ulog.scans[r] = << >>
         /\ \A c \in Chunks : chunk_region(c) = r => ulog.chunk_scans[c] = << >>

\* A mixed cycle is over: the region loop passed an old region without a
\* scan and its chunks were scanned, the second one up to the watermark;
\* the region of the collection set was claimed in both loops and scanned in
\* neither.
C28_OldRegionThroughChunks ==
  /\ upd.returned
  /\ ~upd.global
  /\ \E r \in Regions :
       /\ chunk_scan_wanted(uregion[r])
       /\ RegionLoopDone(r)
       /\ ulog.scans[r] = << >>
       /\ \A c \in Chunks : chunk_region(c) = r => ChunkScanned(c)
       /\ \E c \in Chunks :
            /\ chunk_region(c) = r
            /\ ulog.chunk_scans[c][1].to < chunk_offset(c) + ChunkWords
            /\ ulog.chunk_scans[c][1].how = "marked_objects"
  /\ \E r \in Regions :
       /\ is_cset(uregion[r])
       /\ RegionLoopDone(r)
       /\ \A c \in Chunks : chunk_region(c) = r => ChunkLoopDone(c)

\* A global cycle is over: an old region was scanned in the region loop, up
\* to its watermark, and the chunk iterator was left alone.
C28_OldRegionDirectly ==
  /\ upd.returned
  /\ upd.global
  /\ uchunk = 1
  /\ \E r \in Regions :
       /\ is_old(uregion[r])
       /\ Len(ulog.scans[r]) = 1
       /\ ulog.scans[r][1].limit = uregion[r].watermark

\* The regions and the chunks a worker has claimed.
RegionsClaimedBy(w) == {r \in Regions : ulog.region_claims[r] = << w >>}
ChunksClaimedBy(w) == {c \in Chunks : ulog.chunk_claims[c] = << w >>}

\* What the log holds of a worker: its claims and its scans.
LoggedBy(w) ==
  << RegionsClaimedBy(w), ChunksClaimedBy(w),
     {r \in Regions : ulog.scans[r] # << >> /\ ulog.scans[r][1].by = w},
     {c \in Chunks : ulog.chunk_scans[c] # << >> /\ ulog.chunk_scans[c][1].by = w} >>

\* The worker has checked for cancellation after each region it is done with
\* and before each claim of a chunk.
CheckedAtBoundaries(w) ==
  /\ uworker[w].region_checks =
       Cardinality(RegionsClaimedBy(w)) - (IF RegionInHand(w) # 0 THEN 1 ELSE 0)
  /\ uworker[w].chunk_checks >= Cardinality(ChunksClaimedBy(w))
  /\ uworker[w].chunk_checks <= Cardinality(ChunksClaimedBy(w)) + 1
  /\ uworker[w].pc = "chunk_next" =>
       uworker[w].chunk_checks = Cardinality(ChunksClaimedBy(w)) + 1
  /\ uworker[w].pc \in {"chunk_scan", "chunk_check"} =>
       uworker[w].chunk_checks = Cardinality(ChunksClaimedBy(w))

\* C29: a worker that updates references checks for cancellation at each
\* region boundary and each chunk boundary; the step in which it observes
\* the cancellation is its return, after which it claims and scans nothing
\* more; a worker that observed the cancellation in the region loop has
\* never entered the chunk loop.
C29_CancellationObserved ==
  [][\A w \in Workers :
       /\ CheckedAtBoundaries(w)'
       /\ uworker'[w].observed # "no" => uworker'[w].pc = "returned"
       /\ uworker[w].observed # "no" =>
            /\ uworker'[w] = uworker[w]
            /\ LoggedBy(w)' = LoggedBy(w)
       /\ (uworker[w].observed = "no" /\ uworker'[w].observed # "no") =>
            /\ upd.cancelled
            /\ uworker[w].pc \in {"check", "chunk_check"}
            /\ LoggedBy(w)' = LoggedBy(w)
       /\ uworker'[w].observed = "region" => ~uworker'[w].in_chunks
       /\ (upd.cancelled /\ uworker[w].pc \in {"check", "chunk_check"}
             /\ uworker'[w] # uworker[w]) => uworker'[w].pc = "returned"]_vars

\* A worker observed the cancellation in the region loop and returned with
\* no chunk claimed by it, while the other worker observed it in the chunk
\* loop, with chunks left.
C29_ReturnedFromBothLoops ==
  /\ ~upd.global
  /\ uchunk <= NumRegions * ChunksPerRegion
  /\ \E w1, w2 \in Workers :
       /\ uworker[w1].observed = "region"
       /\ uworker[w1].pc = "returned"
       /\ uworker[w1].region_checks >= 1
       /\ ChunksClaimedBy(w1) = {}
       /\ uworker[w2].observed = "chunk"
       /\ uworker[w2].pc = "returned"
       /\ ChunksClaimedBy(w2) # {}

\* The region was scanned in the region loop up to its update watermark; of
\* a region that turned active during the phase there is nothing below the
\* watermark, which is its bottom.
ScannedUpToWatermark(r) ==
  \/ uregion[r].watermark = 0
  \/ /\ Len(ulog.scans[r]) = 1
     /\ ulog.scans[r][1].limit = uregion[r].watermark

\* C30: when update_heap_references returns from a cycle that was not
\* cancelled, the shared region iterator is exhausted, every active young
\* region outside the collection set (and every such old region when the
\* cycle is global) has been scanned up to its update watermark, and when
\* the cycle is not global every work chunk has been claimed and processed.
C30_UpdateRefsComplete ==
  (upd.returned /\ ~upd.cancelled) =>
    /\ uiter = NumRegions + 1
    /\ \A r \in Regions :
         /\ RegionLoopDone(r)
         /\ region_scan_wanted(uregion[r], upd.global) => ScannedUpToWatermark(r)
    /\ ~upd.global =>
         /\ uchunk = NumRegions * ChunksPerRegion + 1
         /\ \A c \in Chunks :
              /\ ChunkLoopDone(c)
              /\ ChunkScanDue(c) => ChunkScanned(c)

\* A young cycle returned without a cancellation: a young region was scanned
\* in the region loop up to its watermark, the chunks of an old region were
\* scanned through the remembered set, and both workers had claimed chunks.
C30_ReturnedComplete ==
  /\ upd.returned
  /\ ~upd.cancelled
  /\ ~upd.global
  /\ \E r \in Regions :
       /\ is_young(uregion[r])
       /\ uregion[r].watermark > 0
       /\ Len(ulog.scans[r]) = 1
  /\ \E c \in Chunks :
       /\ ChunkScanned(c)
       /\ ulog.chunk_scans[c][1].how = "process_region_slice"
  /\ \A w \in Workers : ChunksClaimedBy(w) # {}

\* A global cycle returned without a cancellation, an old region scanned in
\* the region loop and a region that turned young during the phase not.
C30_ReturnedCompleteGlobal ==
  /\ upd.returned
  /\ ~upd.cancelled
  /\ upd.global
  /\ \E r \in Regions : is_old(uregion[r]) /\ Len(ulog.scans[r]) = 1
  /\ \E r \in Regions :
       /\ is_young(uregion[r])
       /\ uregion[r].watermark = 0
       /\ ulog.scans[r] = << >>

\* The workers that have entered do_work.
Started == {w \in Workers : uworker[w].pc # "start"}

\* C31 as stated: in every run of the task, concurrent or not, once a worker
\* has started, the first worker to start has returned the collector's
\* reserves to the mutator, exactly once.
C31_FirstStarterMovesInEveryRun ==
  Started # {} => (Len(upd.moved) = 1 /\ upd.moved[1] \in Started)

\* C31, amended: in a concurrent run of the task the worker with worker_id 0,
\* and no other, returns the collector's reserves to the mutator, exactly
\* once, when it starts and so before it claims or scans any region; the
\* other workers may start and scan before it.  In a run that is not
\* concurrent no worker does.
C31_WorkerZeroMovesWhenConcurrent ==
  /\ Len(upd.moved) <= 1
  /\ \A i \in DOMAIN upd.moved : upd.moved[i] = 1
  /\ ~upd.concurrent => upd.moved = << >>
  /\ upd.concurrent => (upd.moved # << >> <=> 1 \in Started)
  /\ (upd.concurrent /\ upd.moved = << >>) => LoggedBy(1) = << {}, {}, {}, {} >>

\* In a concurrent run another worker started first and scanned a region
\* before worker 0 started and moved the reserves.
C31_MovedAfterAnotherWorkerScanned ==
  /\ upd.concurrent
  /\ upd.moved = << 1 >>
  /\ uworker[1].pc = "next"
  /\ RegionsClaimedBy(1) = {}
  /\ \E w \in Workers \ {1} :
       \E r \in Regions : ulog.scans[r] # << >> /\ ulog.scans[r][1].by = w

\* A run that is not concurrent returned with the reserves where they were.
C31_NotConcurrentNoMove ==
  /\ ~upd.concurrent
  /\ upd.returned
  /\ ~upd.cancelled
  /\ upd.moved = << >>

\* A try_evacuate_object that returned nullptr: no memory, and no
\* out-of-memory protocol.
NotRelocated(try) == ~try.copy /\ ~try.oom

\* C32: evacuate_object never returns nullptr for an object of a young or
\* an old region: a try_evacuate_object returns nullptr only as a failed
\* promotion, the first try of its call, and the same call goes on to a try
\* into the object's own generation, which finds memory or goes through the
\* out-of-memory protocol; what the call returns is the forwarding target
\* of the object: the copy that won, the winner's copy, or the resolved
\* forwardee.
C32_NeverNotRelocated ==
  /\ \A o \in Objects : NullRef \notin returned[o]
  /\ last.ref # NullRef
  /\ last.thr # 0 =>
       /\ last.how \in {"won", "lost", "oom", "latched", "latched_on_entry", "forwarded"}
       /\ last.ref = resolve_forwarded(last.obj)
       /\ last.how = "won" => last.ref = CopyRef(last.thr, ncalls[last.thr])
       /\ last.how = "lost" =>
            /\ last.ref[1] = "copy"
            /\ last.ref # CopyRef(last.thr, ncalls[last.thr])
  /\ \A i \in DOMAIN evac_log.tries :
       NotRelocated(evac_log.tries[i]) =>
         /\ evac_log.tries[i].target = OLD_GENERATION
         /\ evac_log.tries[i].from_young
         /\ i = 1
         /\ Len(evac_log.tries) = 2
         /\ evac_log.tries[2].target = YOUNG_GENERATION
         /\ ~NotRelocated(evac_log.tries[2])

\* A promotion came back with nullptr and the same call found memory in the
\* young generation; the thread is about to install its copy.
C32_NotRelocatedThenYoungCopy ==
  /\ Len(evac_log.tries) = 2
  /\ NotRelocated(evac_log.tries[1])
  /\ evac_log.tries[2].copy
  /\ pc[evac_log.thr] = "install"
  /\ frame[evac_log.thr].target = YOUNG_GENERATION

\* A promotion came back with nullptr and the young generation had no memory
\* either: the call is in the out-of-memory protocol and will return the
\* resolved forwardee.
C32_NotRelocatedThenOom ==
  /\ Len(evac_log.tries) = 2
  /\ NotRelocated(evac_log.tries[1])
  /\ evac_log.tries[2].oom
  /\ pc[evac_log.thr] = "oomwait"

\* The call made a request for a new PLAB that was granted.
PlabGranted(call) == \E i \in DOMAIN call.reqs : call.reqs[i].granted

\* The call retried its PLAB allocation.
PlabRetried(call) ==
  call.op = "evac" /\ call.target = OLD_GENERATION /\ call.tries = 2

\* C33: try_evacuate_object retries the PLAB, with the preferred size reset
\* to plab_min_size, only while the thread's retries are enabled; a retry
\* that fails disables them, and only a call whose slow path obtained a new
\* PLAB enables them again: with the retries disabled, a call that is
\* granted no new PLAB makes no retry and leaves them disabled.
C33_RetriesUntilOneFails ==
  [][/\ PlabRetried(labcall') =>
          /\ labcall'.first.plab_retries_enabled
          /\ labcall'.reset_to = plab_min_size
          /\ ~labcall'.obj => ~labd'.plab_retries_enabled
     /\ (~labd.plab_retries_enabled /\ ~PlabGranted(labcall')) =>
          /\ ~PlabRetried(labcall')
          /\ ~labd'.plab_retries_enabled
     /\ (labd.plab_retries_enabled /\ ~labd'.plab_retries_enabled) =>
          PlabRetried(labcall') /\ ~labcall'.obj]_vars

\* After a failed retry the thread's retries are disabled: a call whose PLAB
\* allocation failed with little left in the PLAB and the object below the
\* preferred size, which would have been retried, was not.
C33_NoRetryWhileDisabled ==
  /\ labcall.op = "evac"
  /\ labcall.target = OLD_GENERATION
  /\ ~labcall.before.plab_retries_enabled
  /\ labcall.tries = 1
  /\ ~labcall.first.obj
  /\ labcall.size < labcall.first.pref
  /\ labcall.first.plab_rem < plab_min_size
  /\ ~labd.plab_retries_enabled

\* A retry failed and disabled the retries.
C33_FailedRetryDisables ==
  /\ PlabRetried(labcall)
  /\ ~labcall.obj
  /\ labcall.before.plab_retries_enabled
  /\ ~labd.plab_retries_enabled

\* A new PLAB enabled the retries again.
C33_NewPlabEnables ==
  /\ ~labcall.before.plab_retries_enabled
  /\ labd.plab_retries_enabled
  /\ PlabGranted(labcall)

\* C34: when complete_degenerated_cycle or complete_concurrent_cycle
\* returns, the region balance of the old generation is 0, the evacuation
\* reserves of young and old and the promoted reserve of old are 0, and the
\* old generation is parseable, whatever they were on entry and whether or
\* not the transfer of regions succeeded.
C34_CycleLeftClean ==
  cyc.at = "return" =>
    /\ cyc.region_balance = 0
    /\ cyc.reserves = [young_evacuation |-> 0, old_evacuation |-> 0, old_promoted |-> 0]
    /\ cyc.parseable
    /\ ~cyc.lock_held
    /\ Called("balance")
    /\ Called("reset")

\* A degenerated cycle returned clean although the transfer of regions to
\* old had failed and the old generation was not parseable on entry.
C34_CleanAfterFailedTransfer ==
  /\ cyc.at = "return"
  /\ cyc.kind = "degenerated"
  /\ ~cyc.result.success
  /\ cyc.result.region_destination = "old"
  /\ cyc.region_balance = 0
  /\ cyc.reserves.old_promoted = 0
  /\ Called("set_parseable")
  /\ cyc.parseable

\* A concurrent cycle returned clean: the old generation was parseable on
\* entry, and a surplus of old went to young.
C34_CleanConcurrent ==
  /\ cyc.at = "return"
  /\ cyc.kind = "concurrent"
  /\ ~Called("coalesce")
  /\ cyc.result.region_destination = "young"
  /\ cyc.region_balance = 0
  /\ cyc.reserves.young_evacuation = 0

\* C35: in every reachable state the bytes a thread has promoted through its
\* PLAB are at most the PLAB's actual size, and the rollback of a promotion
\* that lost the race takes off no more than was counted, so the unsigned
\* actual_size - promoted of retire_plab never wraps, also when the PLAB is
\* retired again after a request for a new one has failed.
C35_PromotedWithinActualSize ==
  /\ labd.plab_promoted <= labd.plab_actual_size
  /\ \A i \in DOMAIN labcall.retired :
       /\ labcall.retired[i].promoted <= labcall.retired[i].actual_size
       /\ labcall.retired[i].unexpended =
            labcall.retired[i].actual_size - labcall.retired[i].promoted
  /\ (labcall.op = "undo" /\ labcall.is_promotion) =>
       /\ labcall.before.plab_promoted >= labcall.size * HeapWordSize
       /\ labd.plab_promoted = labcall.before.plab_promoted - labcall.size * HeapWordSize

\* One call retired the PLAB twice: a PLAB that held promotions, and then,
\* the request for a new one having failed, the same PLAB again with nothing
\* counted.
C35_RetiredTwiceInARow ==
  /\ Len(labcall.retired) = 2
  /\ labcall.retired[1].promoted > 0
  /\ labcall.retired[1].promoted < labcall.retired[1].actual_size
  /\ ~labcall.reqs[1].granted
  /\ labcall.retired[2].actual_size = 0
  /\ labcall.retired[2].promoted = 0
  /\ labcall.retired[2].unexpended = 0

\* A promotion that lost the race was rolled back from a PLAB that holds
\* another promotion still.
C35_PromotionRolledBack ==
  /\ labcall.op = "undo"
  /\ labcall.is_promotion
  /\ labd.plab_promoted > 0
  /\ labd.plab_promoted < labcall.before.plab_promoted

\* What the assertions of allocate_new_plab and allocate_from_plab_slow state
\* of one request: "Requested PLAB is too small" (word_size >= min_size) and
\* "Align by design" (min_size, and the doubled size that is recorded).
RequestedPlabNotTooSmall(req) == req.word_size >= req.min_size
AlignedByDesign(req) ==
  /\ req.min_size % CardSizeInWords = 0
  /\ req.future_size % CardSizeInWords = 0

\* C36: every request that allocate_from_plab_slow passes to allocate_new_plab
\* has word_size >= min_size with min_size card-aligned, and the doubled
\* preferred size it records is card-aligned, whatever the preferred size was
\* (0, reset to plab_min_size, or capped at plab_max_size) and whatever
\* minimum and maximum are configured.
C36_RequestsPassTheAssertions ==
  \A i \in DOMAIN labcall.reqs :
    /\ RequestedPlabNotTooSmall(labcall.reqs[i])
    /\ AlignedByDesign(labcall.reqs[i])

\* The configured maximum is below the minimum, the preferred size was capped
\* at it by an earlier call, and the request for a new PLAB asks for fewer
\* words than the minimum it names.
C36_RequestBelowItsMinimum ==
  /\ plab_max_size < plab_min_size
  /\ labcall.reqs # << >>
  /\ labcall.before.plab_size = plab_max_size
  /\ labcall.reqs[1].word_size = plab_max_size
  /\ labcall.reqs[1].min_size = plab_min_size
  /\ AlignedByDesign(labcall.reqs[1])

\* The same requests where the configured maximum is no less than the
\* minimum, and the alignment under every configuration.
RequestsPassWhereMaxCoversMin ==
  /\ plab_max_size >= plab_min_size => C36_RequestsPassTheAssertions
  /\ \A i \in DOMAIN labcall.reqs : AlignedByDesign(labcall.reqs[i])

====
